---- MODULE Spec2Model ----
(***************************************************************************)
(* LunchPrep: the PII anonymiser (src/lib/anonymiser/pii.ts), the         *)
(* classifier payload builders (src/lib/categoriser/prompt.ts, client.ts)  *)
(* and the DBS statement parser (src/lib/parsers/dbs.ts).                  *)
(*                                                                         *)
(* JavaScript strings that the code inspects character by character        *)
(* (descriptions, placeholder names, business keywords, whitelist entries) *)
(* are sequences of one-character strings, so that toUpperCase, includes   *)
(* and trim are computed and not assumed.  Strings the code only compares  *)
(* or copies (transactionCode, notes, originalDescription) are TLA+        *)
(* strings.  Objects live in a heap indexed by reference, arrays are       *)
(* sequences of references, so that "new object" and "same object" differ. *)
(***************************************************************************)
EXTENDS Integers, Sequences, FiniteSets, TLC

(***************************************************************************)
(* JavaScript string primitives                                            *)
(***************************************************************************)
LowerLetters ==
  <<"a", "b", "c", "d", "e", "f", "g", "h", "i", "j", "k", "l", "m", "n", "o", "p", "q", "r", "s", "t", "u", "v", "w", "x", "y", "z">>
UpperLetters ==
  <<"A", "B", "C", "D", "E", "F", "G", "H", "I", "J", "K", "L", "M", "N", "O", "P", "Q", "R", "S", "T", "U", "V", "W", "X", "Y", "Z">>

\* String.prototype.toUpperCase on one UTF-16 unit (ASCII letters only occur)
UpperOf ==
  [c \in {LowerLetters[i] : i \in 1..Len(LowerLetters)} |->
     UpperLetters[CHOOSE i \in 1..Len(LowerLetters) : LowerLetters[i] = c]]

upperChar(c) == IF c \in DOMAIN UpperOf THEN UpperOf[c] ELSE c

toUpperCase(s) == [i \in 1..Len(s) |-> upperChar(s[i])]

\* String.prototype.includes
includes(s, sub) ==
  \E i \in 0..(Len(s) - Len(sub)) : \A j \in 1..Len(sub) : s[i + j] = sub[j]

WhiteSpace == {" ", "\t", "\n"}

\* String.prototype.trim
trim(s) ==
  LET inked == {i \in 1..Len(s) : s[i] \notin WhiteSpace}
  IN  IF inked = {} THEN << >>
      ELSE SubSeq(s, CHOOSE i \in inked : \A j \in inked : i <= j,
                     CHOOSE i \in inked : \A j \in inked : j <= i)

\* { ...obj, [k]: v }
spreadSet(obj, k, v) ==
  [x \in (DOMAIN obj) \cup {k} |-> IF x = k THEN v ELSE obj[x]]

(***************************************************************************)
(* pii.ts: constants                                                       *)
(***************************************************************************)
TRANSFER_TRANSACTION_CODES ==
  {"FAST or PayNow Payment / Receipt", "Funds Transfer"}

BUSINESS_KEYWORDS ==
  << <<"P", "T", "E", " ", "L", "T", "D">>,
     <<"P", "T", "E", ".", " ", "L", "T", "D", ".">>,
     <<"S", "D", "N", " ", "B", "H", "D">>,
     <<" ", "L", "T", "D">>,
     <<" ", "L", "L", "C">>,
     <<" ", "I", "N", "C">>,
     <<" ", "C", "O", "R", "P">>,
     <<"C", "O", "M", "P", "A", "N", "Y">>,
     <<"E", "N", "T", "E", "R", "P", "R", "I", "S", "E">>,
     <<"E", "N", "T", "E", "R", "P", "R", "I", "S", "E", "S">>,
     <<"S", "E", "R", "V", "I", "C", "E", "S">>,
     <<"S", "O", "L", "U", "T", "I", "O", "N", "S">>,
     <<"H", "O", "L", "D", "I", "N", "G", "S">>,
     <<"G", "R", "O", "U", "P">>,
     <<"C", "A", "F", "E">>,
     <<"C", "O", "F", "F", "E", "E">>,
     <<"R", "E", "S", "T", "A", "U", "R", "A", "N", "T">>,
     <<"B", "A", "K", "E", "R", "Y">>,
     <<"K", "I", "T", "C", "H", "E", "N">>,
     <<"C", "L", "I", "N", "I", "C">>,
     <<"H", "O", "S", "P", "I", "T", "A", "L">>,
     <<"P", "H", "A", "R", "M", "A", "C", "Y">>,
     <<"S", "C", "H", "O", "O", "L">>,
     <<"A", "C", "A", "D", "E", "M", "Y">>,
     <<"S", "H", "O", "P">>,
     <<"S", "T", "O", "R", "E">>,
     <<"M", "A", "R", "K", "E", "T">> >>

MOCK_NAMES ==
  << <<"A", "l", "e", "x", " ", "T", "a", "n">>,
     <<"S", "a", "m", " ", "L", "i", "m">>,
     <<"J", "o", "r", "d", "a", "n", " ", "W", "o", "n", "g">>,
     <<"C", "a", "s", "e", "y", " ", "N", "g">>,
     <<"M", "o", "r", "g", "a", "n", " ", "L", "e", "e">>,
     <<"T", "a", "y", "l", "o", "r", " ", "C", "h", "e", "n">>,
     <<"R", "i", "l", "e", "y", " ", "G", "o", "h">>,
     <<"J", "a", "m", "i", "e", " ", "O", "n", "g">>,
     <<"D", "r", "e", "w", " ", "K", "o", "h">>,
     <<"Q", "u", "i", "n", "n", " ", "H", "o">>,
     <<"A", "v", "e", "r", "y", " ", "T", "o", "h">>,
     <<"B", "l", "a", "k", "e", " ", "Y", "e", "o">>,
     <<"C", "a", "m", "e", "r", "o", "n", " ", "S", "i", "m">>,
     <<"D", "a", "n", "a", " ", "W", "e", "e">>,
     <<"E", "l", "l", "i", "o", "t", " ", "C", "h", "u", "a">> >>

(***************************************************************************)
(* pii.ts: predicates                                                      *)
(***************************************************************************)
isTransferTransaction(transactionCode) ==
  transactionCode \in TRANSFER_TRANSACTION_CODES

isBusinessName_caseSensitive(name) ==
  \E i \in 1..Len(BUSINESS_KEYWORDS) : includes(name, BUSINESS_KEYWORDS[i])

isBusinessName(name) ==
  LET upper == toUpperCase(name)
  IN  \E i \in 1..Len(BUSINESS_KEYWORDS) : includes(upper, BUSINESS_KEYWORDS[i])

\* !tx.description || tx.description.trim() === ""
isBlank(description) == description = << >> \/ trim(description) = << >>

\* const upper = tx.description.toUpperCase()  (key of nameToMock, whitelist probe)
nameKey_exact(description) == description

nameKey(description) == toUpperCase(description)

\* MOCK_NAMES[mockIndex % MOCK_NAMES.length]
pickMock_skipFirst(mockIndex) ==
  MOCK_NAMES[((mockIndex + 1) % Len(MOCK_NAMES)) + 1]

pickMock(mockIndex) == MOCK_NAMES[(mockIndex % Len(MOCK_NAMES)) + 1]

\* the three gates shared by both passes (transfer code, blank, business)
gated(tx) ==
  \/ ~isTransferTransaction(tx.transactionCode)
  \/ isBlank(tx.description)
  \/ isBusinessName(tx.description)

(***************************************************************************)
(* pii.ts: the whitelist                                                   *)
(*                                                                         *)
(* What one read of the whitelist store meets is a record env:             *)
(*   window   - FALSE outside a browser (typeof window === "undefined")    *)
(*   throws   - localStorage.getItem throws                                *)
(*   raw      - "null" (no entry or ""), "malformed" (JSON.parse throws)   *)
(*              or "json" (JSON.parse returns env.value)                   *)
(*   value    - the parsed JSON value: [type, items], an item [type, text] *)
(***************************************************************************)
\* a variant that keeps the strings of an array holding other items too
loadWhitelist_stringsOnly(env) ==
  IF ~env.window THEN {}
  ELSE IF env.throws \/ env.raw = "malformed" THEN {}
  ELSE LET arr == IF env.raw = "null" THEN [type |-> "array", items |-> << >>]
                                      ELSE env.value
       IN  IF arr.type = "array"
             THEN {toUpperCase(arr.items[i].text) :
                     i \in {k \in 1..Len(arr.items) : arr.items[k].type = "string"}}
             ELSE {}

loadWhitelist(env) ==
  IF ~env.window THEN {}
  ELSE IF env.throws \/ env.raw = "malformed" THEN {}
  ELSE LET arr == IF env.raw = "null" THEN [type |-> "array", items |-> << >>]
                                      ELSE env.value
       IN  IF /\ arr.type = "array"
              /\ \A i \in 1..Len(arr.items) : arr.items[i].type = "string"
             THEN {toUpperCase(arr.items[i].text) : i \in 1..Len(arr.items)}
             ELSE {}

\* const wl = whitelist ?? loadWhitelist()
whitelistInForce(whitelist, env) ==
  IF whitelist.given THEN whitelist.set ELSE loadWhitelist(env)

(***************************************************************************)
(* pii.ts: anonymise                                                       *)
(*                                                                         *)
(* h is the heap (a sequence of records, a reference is an index),         *)
(* transactions an array of references, wl a set of strings.               *)
(***************************************************************************)

\* first pass, lines 205-221: acc = [nameToMock, mockIndex]
RECURSIVE collectNames(_, _, _, _, _)
collectNames(h, transactions, wl, i, acc) ==
  IF i > Len(transactions) THEN acc
  ELSE
    LET tx    == h[transactions[i]]
        upper == nameKey(tx.description)
    IN  IF \/ gated(tx)
           \/ upper \in wl
           \/ upper \in DOMAIN acc.nameToMock
          THEN collectNames(h, transactions, wl, i + 1, acc)
          ELSE collectNames(h, transactions, wl, i + 1,
                 [nameToMock |-> spreadSet(acc.nameToMock, upper,
                                           pickMock(acc.mockIndex)),
                  mockIndex  |-> acc.mockIndex + 1])

\* the record built at lines 233-239
maskedRecord(tx, mockName) ==
  [tx EXCEPT !.description = mockName,
             !.originalPII = spreadSet(tx.originalPII, mockName, tx.description)]

\* second pass, the callback of transactions.map, lines 224-240:
\* the heap after the callback and the reference it returns
maskTx_inPlace(h, ref, nameToMock) ==
  LET tx    == h[ref]
      upper == nameKey(tx.description)
  IN  IF gated(tx) \/ upper \notin DOMAIN nameToMock
        THEN [heap |-> h, ref |-> ref]
        ELSE [heap |-> [h EXCEPT ![ref] = maskedRecord(tx, nameToMock[upper])],
              ref  |-> ref]

maskTx(h, ref, nameToMock) ==
  LET tx    == h[ref]
      upper == nameKey(tx.description)
  IN  IF gated(tx) THEN [heap |-> h, ref |-> ref]
      ELSE IF upper \notin DOMAIN nameToMock \/ nameToMock[upper] = << >>
        THEN [heap |-> h, ref |-> ref]
        ELSE [heap |-> Append(h, maskedRecord(tx, nameToMock[upper])),
              ref  |-> Len(h) + 1]

RECURSIVE anonymiseMap(_, _, _, _, _)
anonymiseMap(h, transactions, nameToMock, i, out) ==
  IF i > Len(transactions) THEN [heap |-> h, out |-> out]
  ELSE LET r == maskTx(h, transactions[i], nameToMock)
       IN  anonymiseMap(r.heap, transactions, nameToMock, i + 1,
                        Append(out, r.ref))

\* a variant whose map starts at the second record
anonymise_dropsFirst(h, transactions, wl) ==
  LET first == collectNames(h, transactions, wl, 1,
                            [nameToMock |-> << >>, mockIndex |-> 0])
  IN  anonymiseMap(h, transactions, first.nameToMock, 2, << >>)

\* anonymise(transactions, whitelist): the heap afterwards and the new array
anonymise(h, transactions, wl) ==
  LET first == collectNames(h, transactions, wl, 1,
                            [nameToMock |-> << >>, mockIndex |-> 0])
  IN  anonymiseMap(h, transactions, first.nameToMock, 1, << >>)

(***************************************************************************)
(* pii.ts: restore                                                         *)
(***************************************************************************)
\* the callback of transactions.map, lines 257-264
restoreTx_keepMask(h, ref) == [heap |-> h, ref |-> ref]

restoreTx(h, ref) ==
  LET tx == h[ref]
  IN  IF DOMAIN tx.originalPII = {} THEN [heap |-> h, ref |-> ref]
      ELSE IF \/ tx.description \notin DOMAIN tx.originalPII
              \/ tx.originalPII[tx.description] = << >>
        THEN [heap |-> h, ref |-> ref]
        ELSE [heap |-> Append(h, [tx EXCEPT !.description =
                                     tx.originalPII[tx.description]]),
              ref  |-> Len(h) + 1]

RECURSIVE restoreMap(_, _, _, _)
restoreMap(h, transactions, i, out) ==
  IF i > Len(transactions) THEN [heap |-> h, out |-> out]
  ELSE LET r == restoreTx(h, transactions[i])
       IN  restoreMap(r.heap, transactions, i + 1, Append(out, r.ref))

restore(h, transactions) == restoreMap(h, transactions, 1, << >>)

(***************************************************************************)
(* prompt.ts / client.ts: the outbound classifier payload                  *)
(***************************************************************************)
\* the object literal of lines 74-81 (prompt.ts) and 124-129 (client.ts)
promptItem_leaky(tx, i) ==
  [index |-> i, payee |-> tx.originalDescription, notes |-> tx.notes,
   transactionType |-> tx.transactionCode]

promptItem(tx, i) ==
  [index |-> i, payee |-> tx.description, notes |-> tx.notes,
   transactionType |-> tx.transactionCode]

\* buildPrompt: the value JSON.stringify serialises
buildPrompt(txs, categories) ==
  [valid_categories |-> categories,
   transactions     |-> [i \in 1..Len(txs) |-> promptItem(txs[i], i - 1)]]

\* callProxy: the request body JSON.stringify serialises
callProxy(txs, categories) ==
  [transactions |-> [i \in 1..Len(txs) |-> promptItem(txs[i], i - 1)],
   categories   |-> categories]

(***************************************************************************)
(* Bounds and the inputs drawn from them                                   *)
(***************************************************************************)
MaxLen == 2      \* records in a parsed batch
MaxCalls == 2    \* anonymise / restore calls on a batch

Bob      == <<"B", "o", "b">>
BobUpper == <<"B", "O", "B">>
Ann      == <<"A", "n", "n">>
ZedCafe  == <<"Z", "e", "d", " ", "C", "a", "f", "e">>
Blank    == <<" ", "\t">>

\* descriptions a parsed record may carry: personal names (two spellings of
\* one), a name that is also the first pool entry, a business, empty, blank
Descriptions == {Bob, BobUpper, Ann, MOCK_NAMES[1], ZedCafe, << >>, Blank}

PointOfSale == "Point-of-Sale Transaction or Proceeds"

\* a record as the statement parser returns it (originalPII empty)
parsedRecord(d, c) ==
  [date                |-> "2026-02-23",
   description         |-> d,
   originalDescription |-> toUpperCase(d),
   amount              |-> IF c = PointOfSale THEN -930 ELSE 1250,
   transactionCode     |-> c,
   notes               |-> IF c = "Funds Transfer" THEN "lunch" ELSE "",
   originalPII         |-> << >>]

\* every description on the FAST/PayNow rail, one name on the other transfer
\* rail and one on a card rail
ParsedRecords ==
  {parsedRecord(d, "FAST or PayNow Payment / Receipt") : d \in Descriptions}
    \cup {parsedRecord(Ann, "Funds Transfer"), parsedRecord(Bob, PointOfSale)}

\* the whitelist argument of a call: omitted, empty, or two upper-cased names
WhitelistArgs ==
  {[given |-> FALSE, set |-> {}],
   [given |-> TRUE,  set |-> {}],
   [given |-> TRUE,  set |-> {BobUpper, toUpperCase(MOCK_NAMES[1])}]}

jsonString(s) == [type |-> "string", text |-> s]

storeWith(raw, value) ==
  [window |-> TRUE, throws |-> FALSE, raw |-> raw, value |-> value]

\* what a read of the whitelist store may meet
StoreReads ==
  {[window |-> FALSE, throws |-> FALSE, raw |-> "null",
    value |-> [type |-> "null", items |-> << >>]],
   [window |-> TRUE, throws |-> TRUE, raw |-> "null",
    value |-> [type |-> "null", items |-> << >>]],
   storeWith("null", [type |-> "null", items |-> << >>]),
   storeWith("malformed", [type |-> "null", items |-> << >>]),
   storeWith("json", [type |-> "object", items |-> << >>]),
   storeWith("json", [type |-> "array",
                      items |-> <<jsonString(Bob),
                                  [type |-> "number", text |-> << >>]>>]),
   storeWith("json", [type |-> "array",
                      items |-> <<jsonString(Bob), jsonString(MOCK_NAMES[1])>>])}

\* the whitelists in force over every argument and every store read
Whitelists ==
  {whitelistInForce(w, env) : w \in WhitelistArgs, env \in StoreReads}

CategoryLists == {<<"Dining", "Transfers">>, << >>}

NoPayload == [via |-> "none"]

(***************************************************************************)
(* State                                                                   *)
(***************************************************************************)
VARIABLES
  heap,     \* every record object allocated so far, by reference
  arrays,   \* every array allocated so far: arrays[1] is the parsed batch
  cur,      \* the array the last call returned
  arg,      \* the array the last call was given (0 before any call)
  history,  \* the calls made so far, in order
  parsed,   \* the records of the batch as parsed (by value)
  payload,  \* the last request sent to the classifier
  csv,      \* the statement text handed to the parser, as lines of cells
  outcome,  \* what parse(csv) did: returned records, or threw
  detected, \* what detect(csv) did
  dispatched,   \* what detectAndParse(csv) did
  env,          \* process.env as the route module read it when it was loaded
  ipWindows,    \* the rate limiter's map from client IP to its window
  now,          \* Date.now(), in milliseconds
  served,       \* per client IP, the requests answered so far: arrival time and verdict
  response,     \* the last response of POST /api/categorise
  localStorage, \* the browser's entry under BYOK_STORAGE_KEY (or absent)
  storedValue,  \* the state held by useLocalStorage(BYOK_STORAGE_KEY, "")
  lastKeyOp     \* the last operation on that entry, with what it was given or returned

vars == <<heap, arrays, cur, arg, history, parsed, payload,
          csv, outcome, detected, dispatched,
          env, ipWindows, now, served, response,
          localStorage, storedValue, lastKeyOp>>

\* the variables of the anonymiser and classifier, and those of the parser
piiVars == <<heap, arrays, cur, arg, history, parsed, payload>>
parserVars == <<csv, outcome, detected, dispatched>>
\* the variables of the categorise route, and those of the key store
routeVars == <<env, ipWindows, now, served, response>>
keyVars == <<localStorage, storedValue, lastKeyOp>>

\* a function that has not been called yet
NotCalled == [kind |-> "none"]

\* the parser has not been called
ParserIdle ==
  /\ outcome = NotCalled
  /\ detected = NotCalled
  /\ dispatched = NotCalled

\* the route module is not loaded and has answered nothing
RouteIdle ==
  /\ env = NotCalled
  /\ ipWindows = << >>
  /\ now = 0
  /\ served = << >>
  /\ response = NotCalled

\* no page is open: nothing stored, no hook mounted, nothing read
KeyIdle ==
  /\ localStorage = NotCalled
  /\ storedValue = NotCalled
  /\ lastKeyOp = NotCalled

\* the records of array a, by value
recordsOf(h, a) == [i \in 1..Len(a) |-> h[a[i]]]

Init ==
  \E n \in 0..MaxLen :
    \E rows \in [1..n -> ParsedRecords] :
      /\ heap = rows
      /\ arrays = << [i \in 1..n |-> i] >>
      /\ cur = 1
      /\ arg = 0
      /\ history = << >>
      /\ parsed = rows
      /\ payload = NoPayload
      /\ csv = << >>
      /\ ParserIdle
      /\ RouteIdle
      /\ KeyIdle

\* masked = anonymise(arrays[cur], whitelist), wl the whitelist in force
AnonymiseWith(whitelists) ==
  /\ Len(history) < MaxCalls
  /\ \E wl \in whitelists :
       LET r == anonymise(heap, arrays[cur], wl)
       IN  /\ heap' = r.heap
           /\ arrays' = Append(arrays, r.out)
           /\ history' = Append(history, [op |-> "anonymise", wl |-> wl])
  /\ cur' = Len(arrays) + 1
  /\ arg' = cur
  /\ UNCHANGED <<parsed, payload>>
  /\ UNCHANGED <<parserVars, routeVars, keyVars>>

Anonymise == AnonymiseWith(Whitelists)

\* restored = restore(arrays[cur])
Restore ==
  /\ Len(history) < MaxCalls
  /\ LET r == restore(heap, arrays[cur])
     IN  /\ heap' = r.heap
         /\ arrays' = Append(arrays, r.out)
  /\ history' = Append(history, [op |-> "restore", wl |-> {}])
  /\ cur' = Len(arrays) + 1
  /\ arg' = cur
  /\ UNCHANGED <<parsed, payload>>
  /\ UNCHANGED <<parserVars, routeVars, keyVars>>

\* callCategorise(arrays[cur], categories, key): BYOK mode sends buildPrompt's
\* text to Gemini, otherwise callProxy posts its body to /api/categorise
Categorise ==
  /\ payload = NoPayload
  /\ \E categories \in CategoryLists, key \in {"", "AIza-key"} :
       payload' =
         IF key # ""
           THEN [via |-> "gemini",
                 body |-> buildPrompt(recordsOf(heap, arrays[cur]), categories)]
           ELSE [via |-> "proxy",
                 body |-> callProxy(recordsOf(heap, arrays[cur]), categories)]
  /\ UNCHANGED <<heap, arrays, cur, arg, history, parsed>>
  /\ UNCHANGED <<parserVars, routeVars, keyVars>>

Next == Anonymise \/ Restore

Spec == Init /\ [][Next]_vars

\* the classification hand-off: mask once, then send
Mask == history = << >> /\ payload = NoPayload /\ Anonymise

NextClassify == Mask \/ Categorise

SpecClassify == Init /\ [][NextClassify]_vars

(***************************************************************************)
(* Reading the last call                                                   *)
(***************************************************************************)
lastOp == IF history = << >> THEN "none" ELSE history[Len(history)].op
lastWl == history[Len(history)].wl
inRecs == recordsOf(heap, arrays[arg])    \* the records the last call was given
outRecs == recordsOf(heap, arrays[cur])   \* the records the last call returned
opsSoFar == [i \in 1..Len(history) |-> history[i].op]

\* eligibility and exemption as the specification words them
specEligible(r) ==
  /\ r.transactionCode \in {"FAST or PayNow Payment / Receipt", "Funds Transfer"}
  /\ \E i \in 1..Len(r.description) : r.description[i] \notin WhiteSpace

specBusiness(r) ==
  \E k \in 1..Len(BUSINESS_KEYWORDS) :
    \E a \in 1..(Len(r.description) - Len(BUSINESS_KEYWORDS[k]) + 1) :
      \A b \in 1..Len(BUSINESS_KEYWORDS[k]) :
        upperChar(r.description[a + b - 1]) = upperChar(BUSINESS_KEYWORDS[k][b])

specExempt(r, wl) == specBusiness(r) \/ toUpperCase(r.description) \in wl

specMaskable(r, wl) == specEligible(r) /\ ~specExempt(r, wl)

(***************************************************************************)
(* C1  round trip                                                          *)
(***************************************************************************)
\* restore(anonymise([r], wl))[0].description
roundTrip(r, wl) ==
  LET a == anonymise(<<r>>, <<1>>, wl)
      b == restore(a.heap, a.out)
  IN  b.heap[b.out[1]].description

\* C1 as stated: for ANY transaction record r and any whitelist,
\* restore(anonymise([r]))[0].description = r.description.
C1_RoundTripAnyRecord ==
  \A i \in 1..Len(outRecs) : \A wl \in Whitelists :
    roundTrip(outRecs[i], wl) = outRecs[i].description

\* C1 amended: the round trip returns r.description for every record r whose
\* originalPII is empty (every record as parsed), whatever its
\* transactionCode, description and the whitelist in force; and a parsed
\* one-record batch that is anonymised and then restored carries its parsed
\* description again.
C1_RoundTrip ==
  /\ \A i \in 1..Len(outRecs) : \A wl \in Whitelists :
       outRecs[i].originalPII = << >>
         => roundTrip(outRecs[i], wl) = outRecs[i].description
  /\ (Len(parsed) = 1 /\ opsSoFar = <<"anonymise", "restore">>)
       => outRecs[1].description = parsed[1].description

\* a one-record batch whose name was masked by anonymise and put back by restore
C1_Witness ==
  /\ Len(parsed) = 1
  /\ opsSoFar = <<"anonymise", "restore">>
  /\ inRecs[1].description # parsed[1].description
  /\ inRecs[1].description \in {MOCK_NAMES[k] : k \in 1..Len(MOCK_NAMES)}
  /\ outRecs[1].description = parsed[1].description

(***************************************************************************)
(* C2  anonymise changes only eligible, non-exempt records                 *)
(***************************************************************************)
\* C2: after anonymise(batch, wl), every record that is not on a transfer
\* rail, or has an empty/whitespace description, or contains a business
\* keyword (ignoring case), or whose upper-cased description is in wl, has
\* the description and the originalPII it went in with.
C2_ExemptUntouched ==
  lastOp = "anonymise" =>
    \A i \in 1..Len(inRecs) :
      ~specMaskable(inRecs[i], lastWl) =>
        /\ outRecs[i].description = inRecs[i].description
        /\ outRecs[i].originalPII = inRecs[i].originalPII

\* one call that masks a personal name and passes a business on the same rail
C2_Witness ==
  /\ lastOp = "anonymise"
  /\ \E i, j \in 1..Len(inRecs) :
       /\ specEligible(inRecs[i]) /\ specBusiness(inRecs[i])
       /\ outRecs[i] = inRecs[i]
       /\ specMaskable(inRecs[j], lastWl)
       /\ outRecs[j].description # inRecs[j].description

(***************************************************************************)
(* C3  the real name never leaves as the payee                             *)
(***************************************************************************)
\* C3: every eligible, non-exempt record leaves anonymise with a description
\* that is a pool placeholder and differs from the description it came with.
C3_MaskedDiffers ==
  lastOp = "anonymise" =>
    \A i \in 1..Len(inRecs) :
      specMaskable(inRecs[i], lastWl) =>
        /\ outRecs[i].description \in {MOCK_NAMES[k] : k \in 1..Len(MOCK_NAMES)}
        /\ outRecs[i].description # inRecs[i].description

(***************************************************************************)
(* C4  the outbound payload carries no originalPII / originalDescription   *)
(***************************************************************************)
\* a batch that differs from txs at most in originalPII, originalDescription,
\* date and amount: which[i] says what is changed in record i
otherPII == spreadSet(<< >>, Ann, Bob)

variantOf(txs, which) ==
  [i \in 1..Len(txs) |->
     CASE which[i] = "originalPII" ->
            [txs[i] EXCEPT !.originalPII =
               IF txs[i].originalPII = otherPII THEN << >> ELSE otherPII]
       [] which[i] = "originalDescription" ->
            [txs[i] EXCEPT !.originalDescription = Append(@, "x")]
       [] which[i] = "date"   -> [txs[i] EXCEPT !.date = "2026-03-01"]
       [] which[i] = "amount" -> [txs[i] EXCEPT !.amount = @ + 1]
       [] OTHER -> txs[i]]

HiddenFields == {"originalPII", "originalDescription", "date", "amount", "none"}

itemsSent == payload.body.transactions

\* C4: every item of a payload sent by buildPrompt or callProxy has exactly
\* the fields index, payee (= description), notes and transactionType
\* (= transactionCode), and two batches that differ only in originalPII,
\* originalDescription, date or amount yield identical payloads.
C4_PayloadHidesPII ==
  /\ payload # NoPayload =>
       /\ Len(itemsSent) = Len(outRecs)
       /\ \A i \in 1..Len(itemsSent) :
            /\ DOMAIN itemsSent[i] = {"index", "payee", "notes", "transactionType"}
            /\ itemsSent[i].index = i - 1
            /\ itemsSent[i].payee = outRecs[i].description
            /\ itemsSent[i].notes = outRecs[i].notes
            /\ itemsSent[i].transactionType = outRecs[i].transactionCode
  /\ \A which \in [1..Len(outRecs) -> HiddenFields] :
       \A categories \in CategoryLists :
         /\ buildPrompt(variantOf(outRecs, which), categories)
              = buildPrompt(outRecs, categories)
         /\ callProxy(variantOf(outRecs, which), categories)
              = callProxy(outRecs, categories)

\* a masked record, with its real name in originalPII, has been sent
C4_Witness ==
  /\ payload # NoPayload
  /\ \E i \in 1..Len(outRecs) :
       /\ outRecs[i].originalPII # << >>
       /\ itemsSent[i].payee = outRecs[i].description
       /\ outRecs[i].description # parsed[i].description

(***************************************************************************)
(* C5  originalPII[description] is the original across passes              *)
(***************************************************************************)
\* C5: after one or more successive anonymise calls on a parsed batch, every
\* masked record's originalPII[description] is the description the record
\* had before the first call.
C5_OriginalKeptAcrossPasses ==
  (history # << >> /\ \A k \in 1..Len(history) : history[k].op = "anonymise") =>
    \A i \in 1..Len(outRecs) :
      outRecs[i].originalPII # << >> =>
        /\ outRecs[i].description \in DOMAIN outRecs[i].originalPII
        /\ outRecs[i].originalPII[outRecs[i].description] = parsed[i].description

(***************************************************************************)
(* C6  one name, one placeholder                                           *)
(***************************************************************************)
\* C6: within one anonymise call, eligible non-exempt records whose
\* descriptions are equal ignoring letter case receive the same placeholder.
C6_SameNameSamePlaceholder ==
  lastOp = "anonymise" =>
    \A i, j \in 1..Len(inRecs) :
      ( /\ specMaskable(inRecs[i], lastWl)
        /\ specMaskable(inRecs[j], lastWl)
        /\ toUpperCase(inRecs[i].description) = toUpperCase(inRecs[j].description) )
      => outRecs[i].description = outRecs[j].description

\* two spellings of one name masked in one call
C6_Witness ==
  /\ lastOp = "anonymise"
  /\ \E i, j \in 1..Len(inRecs) :
       /\ inRecs[i].description # inRecs[j].description
       /\ toUpperCase(inRecs[i].description) = toUpperCase(inRecs[j].description)
       /\ specMaskable(inRecs[i], lastWl)
       /\ outRecs[i].description # inRecs[i].description
       /\ outRecs[i].description = outRecs[j].description

(***************************************************************************)
(* C8  restore twice                                                       *)
(***************************************************************************)
descriptionsOf(r) == [i \in 1..Len(r.out) |-> r.heap[r.out[i]].description]

\* C8: restore leaves the description alone when it is not a key of
\* originalPII, and for every batch X restore(restore(X)) has the same
\* descriptions as restore(X).
C8_RestoreIdempotent ==
  LET once  == restore(heap, arrays[cur])
      twice == restore(once.heap, once.out)
  IN  /\ \A i \in 1..Len(outRecs) :
           outRecs[i].description \notin DOMAIN outRecs[i].originalPII
             => descriptionsOf(once)[i] = outRecs[i].description
      /\ descriptionsOf(twice) = descriptionsOf(once)

(***************************************************************************)
(* C9  inputs are never mutated                                            *)
(***************************************************************************)
\* C9: a call of anonymise or restore leaves every array that existed before
\* it with the same elements in the same order, and every record object that
\* existed before it with the same field values.
C9_InputsNotMutated ==
  [][ /\ \A a \in 1..Len(arrays) : arrays'[a] = arrays[a]
      /\ \A o \in 1..Len(heap) : heap'[o] = heap[o] ]_vars

\* both calls have produced changed records while the parsed objects still
\* hold what was parsed
C9_Witness ==
  /\ opsSoFar = <<"anonymise", "restore">>
  /\ Len(parsed) = MaxLen
  /\ recordsOf(heap, arrays[1]) = parsed
  /\ \A i \in 1..Len(parsed) :
       /\ heap[arrays[2][i]].description # parsed[i].description
       /\ arrays[3][i] # arrays[2][i]

(***************************************************************************)
(* C10  every returned element is a new object                             *)
(***************************************************************************)
\* C10: no element of the array returned by anonymise or restore is the same
\* object as an element of the array it was given.
C10_AlwaysNewObjects ==
  arg # 0 =>
    \A i \in 1..Len(arrays[cur]), j \in 1..Len(arrays[arg]) :
      arrays[cur][i] # arrays[arg][j]

(***************************************************************************)
(* Batches with more distinct names than the pool has entries              *)
(***************************************************************************)
PoolExtra == 2   \* how many records a long batch may have beyond the pool size

\* the i-th of 26 personal names, distinct ignoring case: "Aee", "Bee", ...
poolName(i) == <<UpperLetters[i], "e", "e">>

PoolWhitelists == {{}, {toUpperCase(poolName(2))}}

\* a long batch of transfers to distinct people; record e (if any) is a card
\* payment, record d (if any: the second or the last) repeats the first name
\* in capitals
PoolInit ==
  \E n \in Len(MOCK_NAMES)..(Len(MOCK_NAMES) + PoolExtra) :
    \E e \in 0..n, d \in {0, 2, n} :
      LET rows == [i \in 1..n |->
                     parsedRecord(
                       IF i = d THEN toUpperCase(poolName(1)) ELSE poolName(i),
                       IF i = e THEN PointOfSale
                                ELSE "FAST or PayNow Payment / Receipt")]
      IN  /\ heap = rows
          /\ arrays = << [i \in 1..n |-> i] >>
          /\ cur = 1
          /\ arg = 0
          /\ history = << >>
          /\ parsed = rows
          /\ payload = NoPayload
          /\ csv = << >>
          /\ ParserIdle
          /\ RouteIdle
          /\ KeyIdle

PoolAnonymise == history = << >> /\ AnonymiseWith(PoolWhitelists)

PoolNext == PoolAnonymise

SpecPool == PoolInit /\ [][PoolNext]_vars

(***************************************************************************)
(* C7  placeholders are assigned in order of first appearance, cyclically  *)
(***************************************************************************)
\* for record i of a call whose maskable positions are M and whose
\* upper-cased names are U: the position at which its name first appears
\* among the maskable records, and how many distinct names have appeared
\* by then
firstSeen(M, U, i) ==
  CHOOSE j \in M : U[j] = U[i] /\ \A m \in M : U[m] = U[i] => j <= m

rank(M, U, i) ==
  Cardinality({U[j] : j \in {m \in M : m <= firstSeen(M, U, i)}})

maskablePositions(recs, wl) == {j \in 1..Len(recs) : specMaskable(recs[j], wl)}

upperNames(recs) == [j \in 1..Len(recs) |-> toUpperCase(recs[j].description)]

\* C7: the k-th distinct (ignoring case) eligible non-exempt name, in order
\* of first appearance, is replaced by pool entry (k-1) mod N; records that
\* are exempt or not eligible consume no pool entry.
C7_CyclicAssignment ==
  lastOp = "anonymise" =>
    LET M == maskablePositions(inRecs, lastWl)
        U == upperNames(inRecs)
    IN  \A i \in M :
          outRecs[i].description =
            MOCK_NAMES[((rank(M, U, i) - 1) % Len(MOCK_NAMES)) + 1]

\* the (N+1)-th distinct name, after a record that consumed no entry, has
\* received the first pool entry
C7_Witness ==
  /\ lastOp = "anonymise"
  /\ LET M == maskablePositions(inRecs, lastWl)
         U == upperNames(inRecs)
     IN  \E i \in M :
           /\ rank(M, U, i) = Len(MOCK_NAMES) + 1
           /\ outRecs[i].description = MOCK_NAMES[1]
           /\ \E j \in 1..(i - 1) : j \notin M

(***************************************************************************)
(* src/lib/parsers/dbs.ts: the DBS statement parser.                       *)
(*                                                                         *)
(* Every string the parser inspects is a sequence of one-character         *)
(* strings; the regular expressions of the source are written out as the   *)
(* scans they perform.  Numbers are exact: an amount is a whole number of  *)
(* cents or NaN, a Date is its year, month and day or Invalid Date.        *)
(***************************************************************************)
Digits == <<"0", "1", "2", "3", "4", "5", "6", "7", "8", "9">>

isDigit(c) == \E i \in 1..Len(Digits) : Digits[i] = c

digitValue(c) == (CHOOSE i \in 1..Len(Digits) : Digits[i] = c) - 1

isLetter(c) ==
  \E i \in 1..Len(LowerLetters) : LowerLetters[i] = c \/ UpperLetters[i] = c

\* the characters of the regex classes \d and [A-Za-z]
DigitChars == {Digits[i] : i \in 1..Len(Digits)}

LetterChars ==
  {LowerLetters[i] : i \in 1..Len(LowerLetters)}
    \cup {UpperLetters[i] : i \in 1..Len(UpperLetters)}

isAlnum(c) == isLetter(c) \/ isDigit(c)

isSpace(c) == c \in WhiteSpace

\* String.prototype.toLowerCase on one UTF-16 unit
LowerOf ==
  [c \in {UpperLetters[i] : i \in 1..Len(UpperLetters)} |->
     LowerLetters[CHOOSE i \in 1..Len(UpperLetters) : UpperLetters[i] = c]]

lowerChar(c) == IF c \in DOMAIN LowerOf THEN LowerOf[c] ELSE c

toLowerCase(s) == [i \in 1..Len(s) |-> lowerChar(s[i])]

\* s.slice(n) for 0 <= n
sliceFrom(s, n) == IF n >= Len(s) THEN << >> ELSE SubSeq(s, n + 1, Len(s))

\* s.slice(0, n) for 0 <= n
sliceTo(s, n) == IF n >= Len(s) THEN s ELSE SubSeq(s, 1, n)

\* String.prototype.startsWith
startsWith(s, prefix) ==
  /\ Len(prefix) <= Len(s)
  /\ \A j \in 1..Len(prefix) : s[j] = prefix[j]

\* the characters of s at the positions in keep, in order
pick(s, keep) ==
  LET nth(k) == CHOOSE i \in keep : Cardinality({j \in keep : j < i}) = k - 1
  IN  [k \in 1..Cardinality(keep) |-> s[nth(k)]]

\* how many characters from position i rightwards are of the class
runLen(s, i, class) ==
  LET stops == {j \in i..Len(s) : s[j] \notin class}
  IN  IF stops = {} THEN Len(s) - i + 1
      ELSE (CHOOSE j \in stops : \A k \in stops : j <= k) - i

\* how many characters from position i leftwards are of the class
runLenBack(s, i, class) ==
  LET stops == {j \in 1..i : s[j] \notin class}
  IN  IF stops = {} THEN i
      ELSE i - (CHOOSE j \in stops : \A k \in stops : k <= j)

\* s.split(c) for a one-character separator: empty pieces are kept
split(s, c) ==
  LET seps == {i \in 1..Len(s) : s[i] = c}
      n == Cardinality(seps)
      at(k) == IF k = 0 THEN 0
               ELSE IF k = n + 1 THEN Len(s) + 1
               ELSE CHOOSE i \in seps : Cardinality({j \in seps : j < i}) = k - 1
  IN  [k \in 1..(n + 1) |->
         IF at(k - 1) + 1 > at(k) - 1 THEN << >>
         ELSE SubSeq(s, at(k - 1) + 1, at(k) - 1)]

\* Array.prototype.join
RECURSIVE join(_, _)
join(pieces, sep) ==
  IF Len(pieces) = 0 THEN << >>
  ELSE IF Len(pieces) = 1 THEN pieces[1]
  ELSE pieces[1] \o sep \o join(Tail(pieces), sep)

\* s.replace(/\s+/g, " ")
collapseSpaces(s) ==
  LET kept == {i \in 1..Len(s) : ~(isSpace(s[i]) /\ i > 1 /\ isSpace(s[i - 1]))}
      t == pick(s, kept)
  IN  [i \in 1..Len(t) |-> IF isSpace(t[i]) THEN " " ELSE t[i]]

(***************************************************************************)
(* Numbers                                                                 *)
(***************************************************************************)
NaN == [nan |-> TRUE, value |-> 0]

number(v) == [nan |-> FALSE, value |-> v]

RECURSIVE digitsValue(_)
\* the value of a run of decimal digits
digitsValue(ds) ==
  IF Len(ds) = 0 THEN 0
  ELSE 10 * digitsValue(SubSeq(ds, 1, Len(ds) - 1)) + digitValue(ds[Len(ds)])

\* the sign prefix both parseInt and parseFloat accept
signLen(s) == IF Len(s) > 0 /\ s[1] \in {"+", "-"} THEN 1 ELSE 0

\* parseInt(str, 10): leading white space, a sign, then the longest run of
\* digits; NaN when there is no digit
parseInt(str) ==
  LET s == sliceFrom(str, runLen(str, 1, WhiteSpace))
      sg == signLen(s)
      n == runLen(s, sg + 1, DigitChars)
      v == digitsValue(SubSeq(s, sg + 1, sg + n))
  IN  IF n = 0 THEN NaN
      ELSE number(IF sg = 1 /\ s[1] = "-" THEN 0 - v ELSE v)

\* Math.round(parseFloat(str) * 100): parseFloat reads leading white space, a
\* sign, digits, a point and digits (the inputs carry no exponent), and is NaN
\* when no digit was read; Math.round rounds to the nearest integer and a tie
\* towards plus infinity.  The product is taken exactly, which is what the
\* floating-point product rounds to unless it lies within an ulp of a tie.
roundedCents(str) ==
  LET s == sliceFrom(str, runLen(str, 1, WhiteSpace))
      sg == signLen(s)
      n == runLen(s, sg + 1, DigitChars)
      point == Len(s) > sg + n /\ s[sg + n + 1] = "."
      m == IF point THEN runLen(s, sg + n + 2, DigitChars) ELSE 0
      whole == digitsValue(SubSeq(s, sg + 1, sg + n))
      frac == IF m = 0 THEN << >> ELSE SubSeq(s, sg + n + 2, sg + n + 1 + m)
      d(k) == IF k <= Len(frac) THEN digitValue(frac[k]) ELSE 0
      floorCents == 100 * whole + 10 * d(1) + d(2)
      restZero == \A k \in 4..Len(frac) : frac[k] = "0"
      negative == sg = 1 /\ s[1] = "-"
  IN  IF n + m = 0 THEN NaN
      ELSE IF ~negative
        THEN number(floorCents + (IF d(3) >= 5 THEN 1 ELSE 0))
        ELSE number(0 - (floorCents +
                          (IF d(3) > 5 \/ (d(3) = 5 /\ ~restZero) THEN 1 ELSE 0)))

\* -x for a number x
negate(x) == IF x.nan THEN NaN ELSE number(0 - x.value)

(***************************************************************************)
(* Results of functions that may throw, and plain-object lookups           *)
(***************************************************************************)
returned(v) == [ok |-> TRUE, value |-> v]

thrown(name, message) == [ok |-> FALSE, name |-> name, message |-> message]

\* members every plain object inherits from Object.prototype: obj[key] is a
\* function (or the prototype) for these keys, never undefined
ObjectPrototypeKeys ==
  {<<"c", "o", "n", "s", "t", "r", "u", "c", "t", "o", "r">>, <<"t", "o", "S", "t", "r", "i", "n", "g">>, <<"v", "a", "l", "u", "e", "O", "f">>, <<"h", "a", "s", "O", "w", "n", "P", "r", "o", "p", "e", "r", "t", "y">>,
   <<"i", "s", "P", "r", "o", "t", "o", "t", "y", "p", "e", "O", "f">>, <<"p", "r", "o", "p", "e", "r", "t", "y", "I", "s", "E", "n", "u", "m", "e", "r", "a", "b", "l", "e">>, <<"t", "o", "L", "o", "c", "a", "l", "e", "S", "t", "r", "i", "n", "g">>,
   <<"_", "_", "p", "r", "o", "t", "o", "_", "_">>}

(***************************************************************************)
(* dbs.ts: constants                                                       *)
(***************************************************************************)
DBS_METADATA_ROWS == 6

MONTHS ==
  << <<"J", "a", "n">>, <<"F", "e", "b">>, <<"M", "a", "r">>, <<"A", "p", "r">>, <<"M", "a", "y">>, <<"J", "u", "n">>,
     <<"J", "u", "l">>, <<"A", "u", "g">>, <<"S", "e", "p">>, <<"O", "c", "t">>, <<"N", "o", "v">>, <<"D", "e", "c">> >>

(***************************************************************************)
(* Dates                                                                   *)
(***************************************************************************)
InvalidDate == [invalid |-> TRUE, year |-> 0, month |-> 0, day |-> 0]

isLeap(y) == (y % 4 = 0 /\ y % 100 # 0) \/ y % 400 = 0

daysIn(y, m) ==
  IF m = 1 THEN (IF isLeap(y) THEN 29 ELSE 28)
  ELSE IF m \in {3, 5, 8, 10} THEN 30 ELSE 31

RECURSIVE carryDays(_, _, _)
\* the calendar day that is day d of month m (0-based) of year y, for any d
carryDays(y, m, d) ==
  IF d > daysIn(y, m)
    THEN carryDays(IF m = 11 THEN y + 1 ELSE y, (m + 1) % 12, d - daysIn(y, m))
  ELSE IF d < 1
    THEN LET py == IF m = 0 THEN y - 1 ELSE y
             pm == (m + 11) % 12
         IN  carryDays(py, pm, d + daysIn(py, pm))
  ELSE [invalid |-> FALSE, year |-> y, month |-> m, day |-> d]

\* new Date(year, month, day) in local time: NaN in any component gives
\* Invalid Date, a year from 0 to 99 means 1900 + year, the day carries
newDate(year, month, day) ==
  IF year.nan \/ month.nan \/ day.nan THEN InvalidDate
  ELSE carryDays(IF year.value \in 0..99 THEN 1900 + year.value ELSE year.value,
                 month.value, day.value)

\* MONTHS[monthStr]: the month number, an inherited member, or undefined
parseDate(dateStr) ==
  LET parts == split(trim(dateStr), " ")
  IN  IF Len(parts) # 3
        THEN thrown("Error", "Invalid DBS date format")
      ELSE
        LET dayStr == parts[1]
            monthStr == parts[2]
            yearStr == parts[3]
            own == {i \in 1..Len(MONTHS) : MONTHS[i] = monthStr}
        IN  IF own = {} /\ monthStr \notin ObjectPrototypeKeys
              THEN thrown("Error", "Unknown month abbreviation")
            ELSE returned(
                   newDate(parseInt(yearStr),
                           IF own = {} THEN NaN
                           ELSE number((CHOOSE i \in own : TRUE) - 1),
                           parseInt(dayStr)))

(***************************************************************************)
(* Amounts                                                                 *)
(***************************************************************************)
\* the amount is kept in cents: Math.round(x * 100) / 100 is that many cents
parseAmount(debitStr, creditStr) ==
  LET debit == trim(debitStr)
      credit == trim(creditStr)
  IN  IF debit # << >> THEN returned(negate(roundedCents(debit)))
      ELSE IF credit # << >> THEN returned(roundedCents(credit))
      ELSE thrown("Error", "Transaction has neither debit nor credit amount")

(***************************************************************************)
(* Title-casing and PII stripping                                          *)
(***************************************************************************)
\* the callback of the inner map of titleCaseWord
titleCasePart(part) ==
  IF Len(part) = 0 THEN part
  ELSE IF part[1] = "("
    THEN <<"(">> \o toUpperCase(SubSeq(part, 2, IF Len(part) >= 2 THEN 2 ELSE 1))
                 \o toLowerCase(sliceFrom(part, 2))
  ELSE <<upperChar(part[1])>> \o toLowerCase(sliceFrom(part, 1))

mapParts(parts) == [i \in 1..Len(parts) |-> titleCasePart(parts[i])]

titleCaseSegment(segment) == join(mapParts(split(segment, "-")), <<"-">>)

titleCaseWord(word) ==
  LET segments == split(word, "/")
  IN  join([i \in 1..Len(segments) |-> titleCaseSegment(segments[i])], <<"/">>)

titleCase(str) ==
  LET collapsed == trim(collapseSpaces(str))
      words == split(collapsed, " ")
  IN  join([i \in 1..Len(words) |-> titleCaseWord(words[i])], <<" ">>)

\* /\d{4}-\d{4}-\d{4}-\d{4}/ matches s from position i
CardLen == 19

cardAt(s, i) ==
  /\ i + CardLen - 1 <= Len(s)
  /\ \A k \in 0..(CardLen - 1) :
       IF k % 5 = 4 THEN s[i + k] = "-" ELSE isDigit(s[i + k])

\* the string holds a card number
hasCard(s) == \E i \in 1..Len(s) : cardAt(s, i)

RECURSIVE removeCards(_)
\* value.replace(/\d{4}-\d{4}-\d{4}-\d{4}/g, ""): one pass from the left over
\* the matches, which do not overlap; what is left is not scanned again
removeCards(s) ==
  LET hits == {i \in 1..Len(s) : cardAt(s, i)}
  IN  IF hits = {} THEN s
      ELSE LET i == CHOOSE h \in hits : \A g \in hits : h <= g
           IN  sliceTo(s, i - 1) \o removeCards(sliceFrom(s, i + CardLen - 1))

\* stripPII(value) as parse calls it, stripLongRefs left at its default false
stripPII(value) == trim(collapseSpaces(trim(removeCards(value))))

\* the least length of a reference token
ReferenceTokenLen == 15

\* a variant whose threshold is one character higher
isReferenceToken_longer(notes) ==
  LET trimmed == trim(notes)
  IN  IF includes(trimmed, <<" ">>) THEN FALSE
      ELSE /\ Len(trimmed) > ReferenceTokenLen
           /\ \A i \in 1..Len(trimmed) : isAlnum(trimmed[i]) \/ trimmed[i] = "-"

isReferenceToken(notes) ==
  LET trimmed == trim(notes)
  IN  IF includes(trimmed, <<" ">>) THEN FALSE
      ELSE /\ Len(trimmed) >= ReferenceTokenLen
           /\ \A i \in 1..Len(trimmed) : isAlnum(trimmed[i]) \/ trimmed[i] = "-"

(***************************************************************************)
(* Per-code cleaners                                                       *)
(***************************************************************************)
cleaned(payee, notes) == [payee |-> payee, notes |-> notes]

\* s.replace(/^<marker>\s*/i, "")
stripMarker(s, marker) ==
  IF Len(s) >= Len(marker)
     /\ toUpperCase(sliceTo(s, Len(marker))) = toUpperCase(marker)
    THEN sliceFrom(s, Len(marker) + runLen(s, Len(marker) + 1, WhiteSpace))
    ELSE s

\* s.replace(/\s+\d+$/, "")
stripTrailingNumber(s) ==
  LET nd == runLenBack(s, Len(s), DigitChars)
      ns == runLenBack(s, Len(s) - nd, WhiteSpace)
  IN  IF nd >= 1 /\ ns >= 1 THEN sliceTo(s, Len(s) - nd - ns) ELSE s

\* s.replace(/\s+[A-Za-z]{2,3}\s+[A-Z]{2,3}\s+\d{2}[A-Z]{3}$/i, ""), read from
\* the end of the string: the date, then country and acquirer code, each a
\* whole run of 2 or 3 letters between runs of white space
stripAcquirerSuffix(s) ==
  LET n == Len(s)
      dateOk == /\ n >= 5
                /\ \A k \in (n - 2)..n : isLetter(s[k])
                /\ isDigit(s[n - 3]) /\ isDigit(s[n - 4])
      s1 == runLenBack(s, n - 5, WhiteSpace)
      l1 == runLenBack(s, n - 5 - s1, LetterChars)
      s2 == runLenBack(s, n - 5 - s1 - l1, WhiteSpace)
      l2 == runLenBack(s, n - 5 - s1 - l1 - s2, LetterChars)
      s3 == runLenBack(s, n - 5 - s1 - l1 - s2 - l2, WhiteSpace)
  IN  IF dateOk /\ s1 >= 1 /\ l1 \in {2, 3} /\ s2 >= 1 /\ l2 \in {2, 3} /\ s3 >= 1
        THEN sliceTo(s, n - 5 - s1 - l1 - s2 - l2 - s3)
        ELSE s

cleanPOS(ref1, ref2) == cleaned(titleCase(stripMarker(ref2, <<"T", "O", ":">>)), << >>)

\* a variant that strips the numeric token before the suffix
cleanMST_numberFirst(ref1) ==
  cleaned(titleCase(trim(stripAcquirerSuffix(stripTrailingNumber(ref1)))), << >>)

cleanMST(ref1) ==
  cleaned(titleCase(trim(stripTrailingNumber(stripAcquirerSuffix(ref1)))), << >>)

cleanICTNotes(rawNotes) ==
  IF toLowerCase(rawNotes) = <<"p", "a", "y", "n", "o", "w", " ", "t", "r", "a", "n", "s", "f", "e", "r">> THEN << >>
  ELSE IF isReferenceToken(rawNotes) THEN << >>
  ELSE rawNotes

\* /^[^:]+:[^:]+:I-BANK$/i.test(ref1)
isExternalBankRef(ref1) ==
  LET parts == split(ref1, ":")
  IN  /\ Len(parts) = 3
      /\ parts[1] # << >>
      /\ parts[2] # << >>
      /\ toUpperCase(parts[3]) = <<"I", "-", "B", "A", "N", "K">>

cleanICT(ref1, ref2, ref3) ==
  IF startsWith(ref1, <<"P", "a", "y", "N", "o", "w", " ", "T", "r", "a", "n", "s", "f", "e", "r">>)
    THEN cleaned(titleCase(stripMarker(ref2, <<"T", "o", ":">>)),
                 cleanICTNotes(trim(stripMarker(ref3, <<"O", "T", "H", "R">>))))
  ELSE IF startsWith(ref1, <<"I", "n", "c", "o", "m", "i", "n", "g", " ", "P", "a", "y", "N", "o", "w">>)
    THEN cleaned(titleCase(stripMarker(ref2, <<"F", "r", "o", "m", ":">>)),
                 cleanICTNotes(trim(stripMarker(ref3, <<"O", "T", "H", "R">>))))
  ELSE IF isExternalBankRef(ref1)
    THEN cleaned(titleCase(split(ref1, ":")[1]), trim(ref2))
  ELSE cleaned(<<"E", "x", "t", "e", "r", "n", "a", "l", " ", "T", "r", "a", "n", "s", "f", "e", "r">>, << >>)

cleanITR(ref1, ref3) ==
  IF startsWith(ref1, <<"S", "E", "N", "D", " ", "B", "A", "C", "K", " ", "F", "R", "O", "M", " ", "P", "A", "Y", "L", "A", "H", "!">>)
    THEN cleaned(<<"P", "a", "y", "L", "a", "h", "!">>, <<"R", "e", "c", "e", "i", "v", "e", "d">>)
  ELSE IF startsWith(ref1, <<"T", "O", "P", " ", "U", "P", " ", "T", "O", " ", "P", "A", "Y", "L", "A", "H", "!">>)
    THEN cleaned(<<"P", "a", "y", "L", "a", "h", "!">>, <<"T", "o", "p", "-", "U", "p">>)
  ELSE IF toUpperCase(trim(ref1)) = <<"D", "B", "S", ":", "I", "-", "B", "A", "N", "K">>
    THEN cleaned(<<"D", "b", "s">>, trim(stripTrailingNumber(stripMarker(ref3, <<"O", "T", "H", "R">>))))
  ELSE cleaned(<<"D", "b", "s">>, << >>)

(***************************************************************************)
(* Code lookup                                                             *)
(***************************************************************************)
\* data/dbs_codes.json: the entries the repository names
dbsCodes ==
  [code \in {<<"P", "O", "S">>, <<"I", "C", "T">>, <<"I", "T", "R">>} |->
     IF code = <<"P", "O", "S">> THEN <<"P", "o", "i", "n", "t", "-", "o", "f", "-", "S", "a", "l", "e", " ", "T", "r", "a", "n", "s", "a", "c", "t", "i", "o", "n", " ", "o", "r", " ", "P", "r", "o", "c", "e", "e", "d", "s">>
     ELSE IF code = <<"I", "C", "T">> THEN <<"F", "A", "S", "T", " ", "o", "r", " ", "P", "a", "y", "N", "o", "w", " ", "P", "a", "y", "m", "e", "n", "t", " ", "/", " ", "R", "e", "c", "e", "i", "p", "t">>
     ELSE <<"F", "u", "n", "d", "s", " ", "T", "r", "a", "n", "s", "f", "e", "r">>]

\* what obj[key] yields for a key the object does not own but inherits
Inherited == <<"[", "i", "n", "h", "e", "r", "i", "t", "e", "d", " ", "m", "e", "m", "b", "e", "r", "]">>

\* dbsCodes[code] ?? code
lookupTransactionCode(code) ==
  IF code \in DOMAIN dbsCodes THEN dbsCodes[code]
  ELSE IF code \in ObjectPrototypeKeys THEN Inherited
  ELSE code

(***************************************************************************)
(* The statement text                                                      *)
(*                                                                         *)
(* A statement is its lines, a line is its cells; the text of a line is    *)
(* its cells joined by commas.  Cells hold no comma, quote, line break or  *)
(* other delimiter candidate, so splitting a line into fields is joining's *)
(* inverse and "," is the delimiter Papa.parse settles on.                 *)
(***************************************************************************)
lineText(line) == join(line, <<",">>)

\* csvContent.split(/\r?\n/).slice(n)
linesFrom(csvContent, n) ==
  IF n >= Len(csvContent) THEN << >> ELSE SubSeq(csvContent, n + 1, Len(csvContent))

skipMetadataRows_none(csvContent) == csvContent

skipMetadataRows(csvContent) == linesFrom(csvContent, DBS_METADATA_ROWS)

\* Papa.parse(text, { header: true, skipEmptyLines: true }).data: lines of
\* no characters are dropped, the first line left names the columns, every
\* later line is an object holding the fields it has under those names
papaParse(lines) ==
  LET full == {i \in 1..Len(lines) : lineText(lines[i]) # << >>}
      kept == pick(lines, full)
      header == kept[1]
      object(cells) ==
        LET n == IF Len(cells) < Len(header) THEN Len(cells) ELSE Len(header)
        IN  [name \in {header[j] : j \in 1..n} |->
               cells[CHOOSE j \in 1..n : header[j] = name]]
  IN  IF Len(kept) = 0 THEN << >>
      ELSE [i \in 1..(Len(kept) - 1) |-> object(kept[i + 1])]

\* row[name] ?? ""
fieldOr(row, name) == IF name \in DOMAIN row THEN row[name] ELSE << >>

\* !csvContent || csvContent.trim().length === 0
isEmptyContent(csvContent) ==
  \A i \in 1..Len(csvContent) :
    \A k \in 1..Len(lineText(csvContent[i])) : isSpace(lineText(csvContent[i])[k])

(***************************************************************************)
(* parse                                                                   *)
(***************************************************************************)
\* the switch on codeUpper
cleanRow_rawRefs(codeUpper, description, ref1, ref2, ref3) ==
  cleaned(ref1 \o ref2, ref3)

cleanRow_fromDescription(codeUpper, description, ref1, ref2, ref3) ==
  cleaned(titleCase(description), << >>)

cleanRow(codeUpper, description, ref1, ref2, ref3) ==
  IF codeUpper = <<"P", "O", "S">> THEN cleanPOS(ref1, ref2)
  ELSE IF codeUpper \in {<<"M", "S", "T">>, <<"U", "P", "I">>, <<"U", "M", "C">>, <<"U", "M", "C", "-", "S">>} THEN cleanMST(ref1)
  ELSE IF codeUpper = <<"I", "C", "T">> THEN cleanICT(ref1, ref2, ref3)
  ELSE IF codeUpper = <<"I", "T", "R">> THEN cleanITR(ref1, ref3)
  ELSE cleaned(titleCase(description), << >>)

\* the body of the loop for one dated row: the record pushed, or the throw
parseRow(row) ==
  LET date == parseDate(trim(row[<<"T", "r", "a", "n", "s", "a", "c", "t", "i", "o", "n", " ", "D", "a", "t", "e">>]))
      amount == parseAmount(fieldOr(row, <<"D", "e", "b", "i", "t", " ", "A", "m", "o", "u", "n", "t">>),
                            fieldOr(row, <<"C", "r", "e", "d", "i", "t", " ", "A", "m", "o", "u", "n", "t">>))
      description == fieldOr(row, <<"D", "e", "s", "c", "r", "i", "p", "t", "i", "o", "n">>)
  IN  IF ~date.ok THEN date
      ELSE IF ~amount.ok THEN amount
      ELSE IF <<"T", "r", "a", "n", "s", "a", "c", "t", "i", "o", "n", " ", "C", "o", "d", "e">> \notin DOMAIN row
        THEN thrown("TypeError", "Cannot read properties of undefined")
      ELSE
        LET code == trim(row[<<"T", "r", "a", "n", "s", "a", "c", "t", "i", "o", "n", " ", "C", "o", "d", "e">>])
            c == cleanRow(toUpperCase(code), description,
                          fieldOr(row, <<"T", "r", "a", "n", "s", "a", "c", "t", "i", "o", "n", " ", "R", "e", "f", "1">>),
                          fieldOr(row, <<"T", "r", "a", "n", "s", "a", "c", "t", "i", "o", "n", " ", "R", "e", "f", "2">>),
                          fieldOr(row, <<"T", "r", "a", "n", "s", "a", "c", "t", "i", "o", "n", " ", "R", "e", "f", "3">>))
        IN  returned([date |-> date.value,
                      description |-> stripPII(c.payee),
                      originalDescription |-> description,
                      amount |-> amount.value,
                      transactionCode |-> lookupTransactionCode(code),
                      notes |-> c.notes,
                      originalPII |-> << >>])

isDated_always(row) == <<"T", "r", "a", "n", "s", "a", "c", "t", "i", "o", "n", " ", "D", "a", "t", "e">> \in DOMAIN row

\* if (!dateStr) continue
isDated(row) ==
  /\ <<"T", "r", "a", "n", "s", "a", "c", "t", "i", "o", "n", " ", "D", "a", "t", "e">> \in DOMAIN row
  /\ trim(row[<<"T", "r", "a", "n", "s", "a", "c", "t", "i", "o", "n", " ", "D", "a", "t", "e">>]) # << >>

RECURSIVE parseRows(_, _, _)
\* the for loop over parsed.data, from row i with the records pushed so far
parseRows(data, i, transactions) ==
  IF i > Len(data) THEN returned(transactions)
  ELSE IF ~isDated(data[i]) THEN parseRows(data, i + 1, transactions)
  ELSE LET r == parseRow(data[i])
       IN  IF ~r.ok THEN r
           ELSE parseRows(data, i + 1, Append(transactions, r.value))

parse(csvContent) ==
  IF isEmptyContent(csvContent) THEN thrown("Error", "CSV content is empty")
  ELSE
    LET data == papaParse(skipMetadataRows(csvContent))
    IN  IF Len(data) = 0 THEN thrown("Error", "No transaction rows found in CSV")
        ELSE parseRows(data, 1, << >>)

(***************************************************************************)
(* detect                                                                  *)
(***************************************************************************)
\* how many leading lines detect reads
DetectLines == 10

detect_wholeText(csvContent) ==
  LET firstLines ==
        join([i \in 1..Len(csvContent) |-> lineText(csvContent[i])], <<"\n">>)
  IN  includes(firstLines, <<"T", "r", "a", "n", "s", "a", "c", "t", "i", "o", "n", " ", "D", "a", "t", "e">>)
        /\ includes(firstLines, <<"T", "r", "a", "n", "s", "a", "c", "t", "i", "o", "n", " ", "R", "e", "f", "1">>)

detect_anyToken(csvContent) ==
  LET n == IF Len(csvContent) < DetectLines THEN Len(csvContent) ELSE DetectLines
      firstLines == join([i \in 1..n |-> lineText(csvContent[i])], <<"\n">>)
  IN  includes(firstLines, <<"T", "r", "a", "n", "s", "a", "c", "t", "i", "o", "n", " ", "D", "a", "t", "e">>)
        \/ includes(firstLines, <<"T", "r", "a", "n", "s", "a", "c", "t", "i", "o", "n", " ", "R", "e", "f", "1">>)

detect(csvContent) ==
  LET n == IF Len(csvContent) < DetectLines THEN Len(csvContent) ELSE DetectLines
      firstLines == join([i \in 1..n |-> lineText(csvContent[i])], <<"\n">>)
  IN  includes(firstLines, <<"T", "r", "a", "n", "s", "a", "c", "t", "i", "o", "n", " ", "D", "a", "t", "e">>)
        /\ includes(firstLines, <<"T", "r", "a", "n", "s", "a", "c", "t", "i", "o", "n", " ", "R", "e", "f", "1">>)

(***************************************************************************)
(* Statements the parser is given                                          *)
(***************************************************************************)
\* the most well-formed rows put before the row under study
MaxBefore == 2

StandardHeader ==
  << <<"T", "r", "a", "n", "s", "a", "c", "t", "i", "o", "n", " ", "D", "a", "t", "e">>, <<"T", "r", "a", "n", "s", "a", "c", "t", "i", "o", "n", " ", "C", "o", "d", "e">>, <<"D", "e", "s", "c", "r", "i", "p", "t", "i", "o", "n">>,
     <<"T", "r", "a", "n", "s", "a", "c", "t", "i", "o", "n", " ", "R", "e", "f", "1">>, <<"T", "r", "a", "n", "s", "a", "c", "t", "i", "o", "n", " ", "R", "e", "f", "2">>, <<"T", "r", "a", "n", "s", "a", "c", "t", "i", "o", "n", " ", "R", "e", "f", "3">>,
     <<"S", "t", "a", "t", "u", "s">>, <<"D", "e", "b", "i", "t", " ", "A", "m", "o", "u", "n", "t">>, <<"C", "r", "e", "d", "i", "t", " ", "A", "m", "o", "u", "n", "t">> >>

\* an export without the code column
HeaderWithoutCode ==
  << <<"T", "r", "a", "n", "s", "a", "c", "t", "i", "o", "n", " ", "D", "a", "t", "e">>, <<"D", "e", "s", "c", "r", "i", "p", "t", "i", "o", "n">>,
     <<"T", "r", "a", "n", "s", "a", "c", "t", "i", "o", "n", " ", "R", "e", "f", "1">>, <<"T", "r", "a", "n", "s", "a", "c", "t", "i", "o", "n", " ", "R", "e", "f", "2">>, <<"T", "r", "a", "n", "s", "a", "c", "t", "i", "o", "n", " ", "R", "e", "f", "3">>,
     <<"S", "t", "a", "t", "u", "s">>, <<"D", "e", "b", "i", "t", " ", "A", "m", "o", "u", "n", "t">>, <<"C", "r", "e", "d", "i", "t", " ", "A", "m", "o", "u", "n", "t">> >>

\* some other bank's header
OtherHeader == << <<"D", "a", "t", "e">>, <<"D", "e", "s", "c", "r", "i", "p", "t", "i", "o", "n">>, <<"A", "m", "o", "u", "n", "t">> >>

\* a header with only one of the two signature columns
HeaderWithoutRef1 == << <<"T", "r", "a", "n", "s", "a", "c", "t", "i", "o", "n", " ", "D", "a", "t", "e">>, <<"D", "e", "s", "c", "r", "i", "p", "t", "i", "o", "n">>, <<"D", "e", "b", "i", "t", " ", "A", "m", "o", "u", "n", "t">> >>

\* the six lines of account details a DBS export starts with
Metadata ==
  << << <<"A", "c", "c", "o", "u", "n", "t", " ", "D", "e", "t", "a", "i", "l", "s", " ", "F", "o", "r", ":">>, <<"P", "O", "S", "B", " ", "S", "a", "v", "i", "n", "g", "s">> >>, << >>,
     << <<"S", "t", "a", "t", "e", "m", "e", "n", "t", " ", "a", "s", " ", "a", "t", ":">>, <<"2", "5", " ", "F", "e", "b", " ", "2", "0", "2", "6">> >>, << >>,
     << <<"A", "v", "a", "i", "l", "a", "b", "l", "e", " ", "B", "a", "l", "a", "n", "c", "e", ":">>, <<"1", "0", "0", ".", "0", "0">> >>, << >> >>

\* Description is Ref1 + ' ' + Ref2 + ' ' + Ref3
concatenated(ref1, ref2, ref3) == ref1 \o <<" ">> \o ref2 \o <<" ">> \o ref3

\* a line of a DBS export under the standard header
dataLine(date, code, ref1, ref2, ref3, debit, credit) ==
  << date, code, concatenated(ref1, ref2, ref3), ref1, ref2, ref3, << >>,
     debit, credit >>

\* the same line with another text in the Description column
withDescription(line, description) ==
  [j \in 1..Len(line) |-> IF j = 3 THEN description ELSE line[j]]

GoodRows ==
  << dataLine(<<"2", "3", " ", "F", "e", "b", " ", "2", "0", "2", "6">>, <<"P", "O", "S">>, <<"N", "E", "T", "S", " ", "Q", "R", " ", "P", "A", "Y", "M", "E", "N", "T", " ", "6", "0", "5", "4", "1", "2">>,
              <<"T", "O", ":", " ", "N", "O", "O", "D", "L", "E", " ", "H", "O", "U", "S", "E">>, << >>, <<" ", "9", ".", "3", "0">>, <<" ">>),
     dataLine(<<"1", "8", " ", "F", "e", "b", " ", "2", "0", "2", "6">>, <<"M", "S", "T">>, <<"B", "U", "S", "/", "M", "R", "T", " ", "7", "9", "9", "7", "0", "1", "7", "6", "7", " ", "S", "I", " ", "S", "G", "P", " ", "1", "8", "F", "E", "B">>,
              <<"1", "2", "3", "4", "-", "5", "6", "7", "8", "-", "9", "0", "1", "2", "-", "3", "4", "5", "6">>, <<"0", "0", "0", "0", "0", "2", "1", "0", "7">>, <<" ", "2", "8", ".", "4", "4", "9">>, <<" ">>),
     dataLine(<<"0", "9", " ", "F", "e", "b", " ", "2", "0", "2", "6">>, <<"I", "C", "T">>, <<"I", "n", "c", "o", "m", "i", "n", "g", " ", "P", "a", "y", "N", "o", "w", " ", "R", "e", "f", " ", "5", "8", "9", "1", "7", "3", "3">>,
              <<"F", "r", "o", "m", ":", " ", "N", "G", " ", "S", "O", "O", " ", "I", "M">>, <<"O", "T", "H", "R", " ", "P", "a", "y", "N", "o", "w", " ", "t", "r", "a", "n", "s", "f", "e", "r">>, <<" ">>, <<" ", "2", "0", "0", ".", "0", "0">>) >>

Phone == <<"8", "2", "7", "6", "5", "6", "9", "4">>

CardNumber == <<"1", "2", "3", "4", "-", "5", "6", "7", "8", "-", "9", "0", "1", "2", "-", "3", "4", "5", "6">>

\* rows under study
StudyRows ==
  << \* a card payment with a merchant reference in brackets
     dataLine(<<"1", "8", " ", "F", "e", "b", " ", "2", "0", "2", "6">>, <<"u", "m", "c", "-", "s">>, <<"B", "U", "R", "G", "E", "R", " ", "K", "I", "N", "G", " ", "(", "X", "Y", "Z", ")", " ", "S", "I", " ", "S", "G", "P", " ", "1", "8", "F", "E", "B">>,
              CardNumber, <<"0", "0", "0", "0", "0", "2", "1", "0", "7">>, <<"2", "8", ".", "4", "5", "6">>, << >>),
     \* transfers
     dataLine(<<"2", "0", " ", "F", "e", "b", " ", "2", "0", "2", "6">>, <<"I", "C", "T">>, <<"P", "a", "y", "N", "o", "w", " ", "T", "r", "a", "n", "s", "f", "e", "r", " ", "5", "3", "2", "0", "1", "6", "7">>,
              <<"T", "o", ":", " ", "B", "O", "B", " ", "T", "A", "N">>, <<"O", "T", "H", "R", " ", "s", "a", "n", " ", "l", "o", "r", " ", "h", "o", "r", "f", "u", "n">>, <<"1", "2", ".", "0", "0">>, << >>),
     dataLine(<<"2", "0", " ", "F", "e", "b", " ", "2", "0", "2", "6">>, <<"I", "C", "T">>, <<"P", "a", "y", "N", "o", "w", " ", "T", "r", "a", "n", "s", "f", "e", "r", " ", "5", "3", "2", "0", "1", "6", "7">>,
              <<"T", "o", ":", " ", "B", "O", "B", " ", "T", "A", "N">>, <<"O", "T", "H", "R", " ", "c", "a", "r", "d", " ", "1", "2", "3", "4", "-", "5", "6", "7", "8", "-", "9", "0", "1", "2", "-", "3", "4", "5", "6">>, <<"1", "2", ".", "0", "0">>, << >>),
     dataLine(<<"2", "0", " ", "F", "e", "b", " ", "2", "0", "2", "6">>, <<"I", "C", "T">>, <<"P", "a", "y", "N", "o", "w", " ", "T", "r", "a", "n", "s", "f", "e", "r", " ", "5", "3", "2", "0", "1", "6", "7">>,
              <<"T", "o", ":", " ", "B", "O", "B", " ", "T", "A", "N">>, <<"O", "T", "H", "R", " ", "1", "2", "3", "4", "-", "5", "6", "7", "8", "-", "9", "0", "1", "2", "-", "3", "4", "5", "6">>, <<"1", "2", ".", "0", "0">>, << >>),
     dataLine(<<"2", "1", " ", "F", "e", "b", " ", "2", "0", "2", "6">>, <<"I", "C", "T">>, <<"T", "r", "u", "s", ":", "1", "2", "3", "4", "5", "6", "7", "8", "9", "0", ":", "I", "-", "B", "A", "N", "K">>,
              <<"T", "o", "p", " ", "U", "p", " ", "B", "a", "n", "k">>, <<"O", "T", "H", "R", " ", "1", "7", "7", "1", "2", "3", "4", "5">>, <<"1", "0", "0">>, << >>),
     dataLine(<<"2", "1", " ", "F", "e", "b", " ", "2", "0", "2", "6">>, <<"I", "C", "T">>, <<"A", "1", "B", "2", "C", "3", "D", "4", "E", "5">>, <<"F", "6", "G", "7", "H", "8">>, << >>,
              << >>, <<"7", "5", ".", "5">>),
     dataLine(<<"2", "2", " ", "F", "e", "b", " ", "2", "0", "2", "6">>, <<"I", "T", "R">>, <<"D", "B", "S", ":", "I", "-", "B", "A", "N", "K">>, <<"0", "1", "2", "3", "4", "5", "6", "7", "8", "9">>,
              <<"O", "T", "H", "R", " ", "r", "e", "n", "t", " ", "f", "e", "b", " ", "8", "8", "1", "2", "3", "4", "5">>, <<"8", "0", "0", ".", "0", "0">>, << >>),
     dataLine(<<"2", "2", " ", "F", "e", "b", " ", "2", "0", "2", "6">>, <<"I", "T", "R">>, <<"T", "F", "1", "2", "3", "4", "5", "6", "7">>, <<"0", "1", "2", "3", "4", "5", "6", "7", "8", "9", ":", "I", "B">>, << >>,
              << >>, <<"1", "5", ".", "0", "0">>),
     \* mobile-wallet rows
     dataLine(<<"1", "9", " ", "F", "e", "b", " ", "2", "0", "2", "6">>, <<"I", "T", "R">>, <<"S", "E", "N", "D", " ", "B", "A", "C", "K", " ", "F", "R", "O", "M", " ", "P", "A", "Y", "L", "A", "H", "!", " ", ":">>, Phone,
              <<"T", "F", "6", "7", "5", "0", "5", "1">>, << >>, <<"5", "0", ".", "0", "0">>),
     dataLine(<<"1", "9", " ", "F", "e", "b", " ", "2", "0", "2", "6">>, <<"I", "T", "R">>, <<"T", "O", "P", " ", "U", "P", " ", "T", "O", " ", "P", "A", "Y", "L", "A", "H", "!", " ", ":">>, Phone,
              <<"T", "F", "6", "7", "5", "0", "5", "2">>, <<"2", "0", ".", "0", "0">>, << >>),
     \* codes without a cleaner
     dataLine(<<"1", "7", " ", "F", "e", "b", " ", "2", "0", "2", "6">>, <<"X", "Y", "Z">>, <<"G", "I", "R", "O", " ", " ", "S", "A", "L", "A", "R", "Y", "/", "B", "O", "N", "U", "S">>, <<"(", "a", "c", "m", "e", ")">>, << >>,
              << >>, <<"1", "0", "0", "0", ".", "0", "0", "4">>),
     dataLine(<<"1", "7", " ", "F", "e", "b", " ", "2", "0", "2", "6">>, << >>, <<"i", "n", "t", "e", "r", "e", "s", "t", " ", "e", "a", "r", "n", "e", "d">>, << >>, << >>,
              << >>, <<"0", ".", "0", "5">>),
     dataLine(<<"1", "7", " ", "F", "e", "b", " ", "2", "0", "2", "6">>, <<"A", "D", "V">>, <<"c", "a", "r", "d", " ", "1", "2", "3", "4", "-", "5", "6", "7", "8", "-", "9", "0", "1", "2", "-", "3", "4", "5", "6", " ", "f", "e", "e">>, << >>,
              << >>, <<"2", ".", "0", "0">>, << >>),
     dataLine(<<"1", "7", " ", "F", "e", "b", " ", "2", "0", "2", "6">>, <<"A", "D", "V">>,
              <<"1", "2", "3", "4", "-", "5", "6", "7", "8", "-", "1", "2", "1", "1", "1", "1", "-", "2", "2", "2", "2", "-", "3", "3", "3", "3", "-", "4", "4", "4", "4", "3", "4", "-", "5", "6", "7", "8">>, << >>, << >>,
              <<"2", ".", "0", "0">>, << >>),
     dataLine(<<"1", "7", " ", "F", "e", "b", " ", "2", "0", "2", "6">>, <<"c", "o", "n", "s", "t", "r", "u", "c", "t", "o", "r">>, <<"b", "u", "i", "l", "d", "i", "n", "g", " ", "w", "o", "r", "k", "s">>, << >>, << >>,
              << >>, <<"4", "0", ".", "0", "0">>),
     \* PayNow notes: the placeholder, and single tokens around 15 characters
     dataLine(<<"2", "0", " ", "F", "e", "b", " ", "2", "0", "2", "6">>, <<"I", "C", "T">>, <<"I", "n", "c", "o", "m", "i", "n", "g", " ", "P", "a", "y", "N", "o", "w", " ", "R", "e", "f", " ", "5", "3", "2", "0", "1", "6", "8">>,
              <<"F", "r", "o", "m", ":", " ", "A", "L", "I", "C", "E", " ", "L", "I", "M">>, <<"O", "T", "H", "R", " ", "P", "A", "Y", "N", "O", "W", " ", "T", "R", "A", "N", "S", "F", "E", "R">>, << >>, <<"3", "0", ".", "0", "0">>),
     dataLine(<<"2", "0", " ", "F", "e", "b", " ", "2", "0", "2", "6">>, <<"I", "C", "T">>, <<"P", "a", "y", "N", "o", "w", " ", "T", "r", "a", "n", "s", "f", "e", "r", " ", "5", "3", "2", "0", "1", "6", "7">>,
              <<"T", "o", ":", " ", "B", "O", "B", " ", "T", "A", "N">>, <<"O", "T", "H", "R", " ", "A", "B", "C", "D", "E", "F", "G", "H", "-", "1", "2", "3", "4", "5">>, <<"1", "2", ".", "0", "0">>, << >>),
     dataLine(<<"2", "0", " ", "F", "e", "b", " ", "2", "0", "2", "6">>, <<"I", "C", "T">>, <<"I", "n", "c", "o", "m", "i", "n", "g", " ", "P", "a", "y", "N", "o", "w", " ", "R", "e", "f", " ", "5", "3", "2", "0", "1", "6", "8">>,
              <<"F", "r", "o", "m", ":", " ", "A", "L", "I", "C", "E", " ", "L", "I", "M">>, <<"O", "T", "H", "R", " ", "A", "B", "C", "D", "E", "F", "G", "H", "-", "1", "2", "3", "4", "5", "6">>, << >>, <<"3", "0", ".", "0", "0">>),
     dataLine(<<"2", "0", " ", "F", "e", "b", " ", "2", "0", "2", "6">>, <<"I", "C", "T">>, <<"P", "a", "y", "N", "o", "w", " ", "T", "r", "a", "n", "s", "f", "e", "r", " ", "5", "3", "2", "0", "1", "6", "7">>,
              <<"T", "o", ":", " ", "B", "O", "B", " ", "T", "A", "N">>, <<"O", "T", "H", "R", " ", "A", "B", "C", "D", "E", "F", "G", "H", "_", "1", "2", "3", "4", "5", "6">>, <<"1", "2", ".", "0", "0">>, << >>),
     \* card payments: suffix, numeric reference, tokens with letters
     dataLine(<<"1", "8", " ", "F", "e", "b", " ", "2", "0", "2", "6">>, <<"M", "S", "T">>, <<"B", "U", "S", "/", "M", "R", "T", " ", "7", "9", "9", "7", "0", "1", "7", "6", "7", " ", "S", "I", " ", "S", "G", "P", " ", "1", "8", "F", "E", "B">>,
              << >>, << >>, <<"1", ".", "5", "9">>, << >>),
     dataLine(<<"1", "8", " ", "F", "e", "b", " ", "2", "0", "2", "6">>, <<"M", "S", "T">>, <<"S", "H", "O", "P", " ", "A", "B", "C", "1", "2", "3", "4", " ", "s", "i", " ", "s", "g", "p", " ", "1", "8", "f", "e", "b">>,
              << >>, << >>, <<"9", ".", "9", "0">>, << >>),
     dataLine(<<"1", "8", " ", "F", "e", "b", " ", "2", "0", "2", "6">>, <<"U", "P", "I">>, <<"7", " ", "E", "L", "E", "V", "E", "N", " ", "1", "2", "3", " ", "S", "T", "O", "R", "E">>,
              << >>, << >>, <<"3", ".", "0", "0">>, << >>),
     dataLine(<<"1", "8", " ", "F", "e", "b", " ", "2", "0", "2", "6">>, <<"U", "M", "C">>, <<"F", "a", "s", "t", "F", "o", "o", "d", " ", "1", "2", "3", "4", "5", "6">>,
              << >>, << >>, <<"7", ".", "5", "0">>, << >>),
     dataLine(<<"1", "8", " ", "F", "e", "b", " ", "2", "0", "2", "6">>, <<"M", "S", "T">>, <<"1", "2", "3", "4", "5", "6">>,
              << >>, << >>, <<"7", ".", "5", "0">>, << >>),
     \* transfer codes in lower case
     dataLine(<<"2", "0", " ", "F", "e", "b", " ", "2", "0", "2", "6">>, <<"i", "c", "t">>, <<"P", "a", "y", "N", "o", "w", " ", "T", "r", "a", "n", "s", "f", "e", "r", " ", "5", "3", "2", "0", "1", "6", "7">>,
              <<"T", "o", ":", " ", "B", "O", "B", " ", "T", "A", "N">>, <<"O", "T", "H", "R", " ", "k", "o", "p", "i">>, <<"1", "2", ".", "0", "0">>, << >>),
     dataLine(<<"2", "2", " ", "F", "e", "b", " ", "2", "0", "2", "6">>, <<"I", "t", "r">>, <<"D", "B", "S", ":", "I", "-", "B", "A", "N", "K">>, <<"0", "1", "2", "3", "4", "5", "6", "7", "8", "9">>,
              <<"O", "T", "H", "R", " ", "r", "e", "n", "t">>, <<"8", "0", "0", ".", "0", "0">>, << >>),
     \* rows without a date
     dataLine(<< >>, << >>, << >>, << >>, << >>, << >>, << >>),
     dataLine(<<" ", " ">>, <<"I", "C", "T">>, <<"P", "a", "y", "N", "o", "w", " ", "T", "r", "a", "n", "s", "f", "e", "r">>, << >>, << >>, <<"a", "b", "c">>, << >>),
     << << >>, <<"P", "O", "S">> >>,
     \* dates
     dataLine(<<"2", "0", "2", "6", "-", "0", "2", "-", "2", "3">>, <<"P", "O", "S">>, <<"N", "E", "T", "S", " ", "Q", "R", " ", "P", "A", "Y", "M", "E", "N", "T", " ", "1">>, <<"T", "O", ":", " ", "K", "O", "P", "I">>, << >>,
              <<"1", ".", "2", "0">>, << >>),
     dataLine(<<"2", "3", " ", "F", "o", "o", " ", "2", "0", "2", "6">>, <<"P", "O", "S">>, <<"N", "E", "T", "S", " ", "Q", "R", " ", "P", "A", "Y", "M", "E", "N", "T", " ", "1">>, <<"T", "O", ":", " ", "K", "O", "P", "I">>, << >>,
              <<"1", ".", "2", "0">>, << >>),
     dataLine(<<"a", "a", " ", "F", "e", "b", " ", "2", "0", "2", "6">>, <<"P", "O", "S">>, <<"N", "E", "T", "S", " ", "Q", "R", " ", "P", "A", "Y", "M", "E", "N", "T", " ", "1">>, <<"T", "O", ":", " ", "K", "O", "P", "I">>, << >>,
              <<"1", ".", "2", "0">>, << >>),
     dataLine(<<"2", "3", " ", "F", "e", "b", " ", "2", "6">>, <<"P", "O", "S">>, <<"N", "E", "T", "S", " ", "Q", "R", " ", "P", "A", "Y", "M", "E", "N", "T", " ", "1">>, <<"T", "O", ":", " ", "K", "O", "P", "I">>, << >>,
              <<"1", ".", "2", "0">>, << >>),
     \* amounts
     dataLine(<<"2", "3", " ", "F", "e", "b", " ", "2", "0", "2", "6">>, <<"P", "O", "S">>, <<"N", "E", "T", "S", " ", "Q", "R", " ", "P", "A", "Y", "M", "E", "N", "T", " ", "1">>, <<"T", "O", ":", " ", "K", "O", "P", "I">>, << >>,
              << >>, <<" ", " ">>),
     dataLine(<<"2", "3", " ", "F", "e", "b", " ", "2", "0", "2", "6">>, <<"P", "O", "S">>, <<"N", "E", "T", "S", " ", "Q", "R", " ", "P", "A", "Y", "M", "E", "N", "T", " ", "1">>, <<"T", "O", ":", " ", "K", "O", "P", "I">>, << >>,
              <<"-", "5", ".", "0", "0">>, << >>),
     dataLine(<<"2", "3", " ", "F", "e", "b", " ", "2", "0", "2", "6">>, <<"P", "O", "S">>, <<"N", "E", "T", "S", " ", "Q", "R", " ", "P", "A", "Y", "M", "E", "N", "T", " ", "1">>, <<"T", "O", ":", " ", "K", "O", "P", "I">>, << >>,
              <<"a", "b", "c">>, << >>),
     dataLine(<<"2", "3", " ", "F", "e", "b", " ", "2", "0", "2", "6">>, <<"P", "O", "S">>, <<"N", "E", "T", "S", " ", "Q", "R", " ", "P", "A", "Y", "M", "E", "N", "T", " ", "1">>, <<"T", "O", ":", " ", "K", "O", "P", "I">>, << >>,
              <<"3", ".", "1", "0">>, <<"7", ".", "7", "7">>) >>

\* a DBS export: the metadata, the header, `before` well-formed rows, the
\* rows under study, `after` well-formed rows and the final line break
export(header, before, study, after) ==
  Metadata \o <<header>> \o SubSeq(GoodRows, 1, before) \o study
    \o SubSeq(GoodRows, 3 - after + 1, 3) \o << << >> >>

Exports ==
  {export(StandardHeader, b, <<StudyRows[k]>>, a) :
     b \in 0..MaxBefore, k \in 1..Len(StudyRows), a \in 0..1}
    \cup {export(StandardHeader, b, << >>, 0) : b \in 0..MaxBefore}

\* the same rows exported without the code column
withoutCode(line) ==
  IF Len(line) < 2 THEN line ELSE <<line[1]>> \o SubSeq(line, 3, Len(line))

ExportsWithoutCode ==
  {Metadata \o <<HeaderWithoutCode>> \o <<withoutCode(GoodRows[k])>> : k \in 1..3}

\* texts that are no DBS export, or a damaged one
OtherTexts ==
  { << << >> >>,
    << << <<" ">> >>, << >>, << <<" ", " ">> >> >>,
    SubSeq(Metadata, 1, 3),
    Metadata,
    Metadata \o << << >>, << >> >>,
    Metadata \o <<StandardHeader>>,
    Metadata \o <<StandardHeader>> \o << << >>, << >> >>,
    Metadata \o << << >> >> \o <<StandardHeader>>,
    Metadata \o << << >> >> \o <<StandardHeader, GoodRows[1]>>,
    <<StandardHeader, GoodRows[1]>>,
    <<OtherHeader, << <<"2", "0", "2", "6", "-", "0", "2", "-", "2", "3">>, <<"P", "u", "r", "c", "h", "a", "s", "e">>, <<"9", ".", "3", "0">> >> >>,
    Metadata \o <<OtherHeader, << <<"2", "0", "2", "6", "-", "0", "2", "-", "2", "3">>, <<"P", "u", "r", "c", "h", "a", "s", "e">>, <<"9", ".", "3", "0">> >> >>,
    Metadata \o <<HeaderWithoutRef1, << <<"2", "3", " ", "F", "e", "b", " ", "2", "0", "2", "6">>, <<"K", "o", "p", "i">>, <<"1", ".", "2", "0">> >> >>,
    Metadata \o Metadata \o <<StandardHeader, GoodRows[1]>>,
    Metadata \o <<OtherHeader, GoodRows[1]>>,
    << << <<"T", "r", "a", "n", "s", "a", "c", "t", "i", "o", "n", " ", "R", "e", "f", "1", " ", "o", "f", " ", "T", "r", "a", "n", "s", "a", "c", "t", "i", "o", "n", " ", "D", "a", "t", "e">> >> >> }

Statements == Exports \cup ExportsWithoutCode \cup OtherTexts

(***************************************************************************)
(* The parser registry (registry.ts)                                       *)
(***************************************************************************)
\* the one bank parser of the repository
dbsParser == [bankName |-> "DBS"]

\* the registered parsers, in registration order
parsers == <<dbsParser>>

\* parser.detect(csvContent) and parser.parse(csvContent) of a registered parser
detectBy(parser, csvContent) == parser.bankName = "DBS" /\ detect(csvContent)

parseBy(parser, csvContent) == parse(csvContent)

\* names.join(", "), as the pieces of the joined text
RECURSIVE joinNames(_)
joinNames(names) ==
  IF Len(names) = 0 THEN << >>
  ELSE IF Len(names) = 1 THEN names
  ELSE <<names[1], ", ">> \o joinNames(Tail(names))

\* the error of detectAndParse: its message is the fixed text followed by
\* the joined bank names, kept here as the pieces of the join
unsupportedFormat ==
  [ok |-> FALSE, name |-> "Error",
   message |-> "Unsupported bank CSV format. No registered parser could detect the file format. Currently supported banks: ",
   banks |-> joinNames([i \in 1..Len(parsers) |-> parsers[i].bankName])]

\* the loop of detectAndParse from parser i on
RECURSIVE detectAndParseFrom(_, _)
detectAndParseFrom(i, csvContent) ==
  IF i > Len(parsers) THEN unsupportedFormat
  ELSE IF detectBy(parsers[i], csvContent) THEN parseBy(parsers[i], csvContent)
  ELSE detectAndParseFrom(i + 1, csvContent)

\* a variant that hands the text to the parser without asking detect
detectAndParse_undetected(csvContent) == parseBy(parsers[1], csvContent)

detectAndParse(csvContent) == detectAndParseFrom(1, csvContent)

(***************************************************************************)
(* The parser as a state machine                                           *)
(***************************************************************************)
ParseInit ==
  /\ csv \in Statements
  /\ ParserIdle
  /\ RouteIdle
  /\ KeyIdle
  /\ heap = << >>
  /\ arrays = << << >> >>
  /\ cur = 1
  /\ arg = 0
  /\ history = << >>
  /\ parsed = << >>
  /\ payload = NoPayload

\* dbsParser.parse(csv)
Parse ==
  /\ outcome = NotCalled
  /\ outcome' = [kind |-> "called", result |-> parse(csv)]
  /\ UNCHANGED <<csv, detected, dispatched>>
  /\ UNCHANGED <<piiVars, routeVars, keyVars>>

\* dbsParser.detect(csv)
Detect ==
  /\ detected = NotCalled
  /\ detected' = [kind |-> "called", result |-> returned(detect(csv))]
  /\ UNCHANGED <<csv, outcome, dispatched>>
  /\ UNCHANGED <<piiVars, routeVars, keyVars>>

\* detectAndParse(csv)
DetectAndParse ==
  /\ dispatched = NotCalled
  /\ dispatched' = [kind |-> "called", result |-> detectAndParse(csv)]
  /\ UNCHANGED <<csv, outcome, detected>>
  /\ UNCHANGED <<piiVars, routeVars, keyVars>>

NextParse == Parse \/ Detect

SpecParse == ParseInit /\ [][NextParse]_vars

\* the registry on its own: the statement is handed to detectAndParse
NextDispatch == DetectAndParse

SpecDispatch == ParseInit /\ [][NextDispatch]_vars

(***************************************************************************)
(* Reading the parser's outcome                                            *)
(***************************************************************************)
parseCalled == outcome.kind = "called"

\* the rows Papa.parse hands to the loop
dataRowsOf(c) == papaParse(skipMetadataRows(c))

\* a row whose date field is missing or blank
dateMissingOrBlank(row) ==
  \/ <<"T", "r", "a", "n", "s", "a", "c", "t", "i", "o", "n", " ", "D", "a", "t", "e">> \notin DOMAIN row
  \/ \A k \in 1..Len(row[<<"T", "r", "a", "n", "s", "a", "c", "t", "i", "o", "n", " ", "D", "a", "t", "e">>]) :
       isSpace(row[<<"T", "r", "a", "n", "s", "a", "c", "t", "i", "o", "n", " ", "D", "a", "t", "e">>][k])

hasDate(row) == ~dateMissingOrBlank(row)

datedRowsOf(c) == SelectSeq(dataRowsOf(c), hasDate)

\* a column is empty when it holds nothing but white space
columnEmpty(row, name) ==
  \A k \in 1..Len(fieldOr(row, name)) : isSpace(fieldOr(row, name)[k])

bothAmountsEmpty(row) ==
  columnEmpty(row, <<"D", "e", "b", "i", "t", " ", "A", "m", "o", "u", "n", "t">>) /\ columnEmpty(row, <<"C", "r", "e", "d", "i", "t", " ", "A", "m", "o", "u", "n", "t">>)

allOf(s, class) == \A k \in 1..Len(s) : s[k] \in class

\* day, three-letter month abbreviation, 4-digit year, separated by spaces
wellFormedDate(dateStr) ==
  LET parts == split(trim(dateStr), " ")
  IN  /\ Len(parts) = 3
      /\ Len(parts[1]) \in {1, 2} /\ allOf(parts[1], DigitChars)
      /\ Len(parts[2]) = 3 /\ allOf(parts[2], LetterChars)
      /\ Len(parts[3]) = 4 /\ allOf(parts[3], DigitChars)

resolvableMonth(dateStr) ==
  LET parts == split(trim(dateStr), " ")
  IN  Len(parts) = 3 => \E m \in 1..Len(MONTHS) : MONTHS[m] = parts[2]

\* C11: for every dated row the amount comes from exactly one column: a
\* non-empty debit column gives minus its value rounded to cents, never a
\* positive amount; otherwise a non-empty credit column gives plus its value
\* rounded to cents, never a negative amount; a dated row with both columns
\* empty makes parse fail; every returned amount is a number of whole cents.
C11_AmountFromOneColumn ==
  parseCalled /\ ~isEmptyContent(csv) =>
    LET rows == datedRowsOf(csv)
        r == outcome.result
    IN  /\ (\E i \in 1..Len(rows) : bothAmountsEmpty(rows[i])) => ~r.ok
        /\ r.ok =>
             /\ Len(r.value) = Len(rows)
             /\ \A i \in 1..Len(rows) :
                  LET a == r.value[i].amount
                      debit == fieldOr(rows[i], <<"D", "e", "b", "i", "t", " ", "A", "m", "o", "u", "n", "t">>)
                      credit == fieldOr(rows[i], <<"C", "r", "e", "d", "i", "t", " ", "A", "m", "o", "u", "n", "t">>)
                  IN  /\ ~a.nan
                      /\ IF ~columnEmpty(rows[i], <<"D", "e", "b", "i", "t", " ", "A", "m", "o", "u", "n", "t">>)
                           THEN a = negate(roundedCents(debit)) /\ a.value <= 0
                           ELSE a = roundedCents(credit) /\ a.value >= 0

\* C12: parse fails fast: when some dated row has a malformed date string
\* (not day, three-letter month, 4-digit year), a month abbreviation that
\* does not resolve, or both amount columns empty, parse throws and returns
\* no records, whatever rows precede it.
C12_FailFast ==
  parseCalled /\ ~isEmptyContent(csv) =>
    LET rows == datedRowsOf(csv)
    IN  (\E i \in 1..Len(rows) :
           \/ ~wellFormedDate(rows[i][<<"T", "r", "a", "n", "s", "a", "c", "t", "i", "o", "n", " ", "D", "a", "t", "e">>])
           \/ ~resolvableMonth(rows[i][<<"T", "r", "a", "n", "s", "a", "c", "t", "i", "o", "n", " ", "D", "a", "t", "e">>])
           \/ bothAmountsEmpty(rows[i]))
          => ~outcome.result.ok

\* the non-empty lines after the six metadata lines and the header line
linesAfterHeader(c) ==
  {i \in (DBS_METADATA_ROWS + 2)..Len(c) : lineText(c[i]) # << >>}

\* C13: parse throws the empty-input error when the trimmed input is empty,
\* and the no-data-rows error when the input is not empty but no data row is
\* left after the six metadata lines and the header line, which includes
\* every input of fewer than 8 lines.
C13_EmptyAndNoRows ==
  parseCalled =>
    /\ isEmptyContent(csv) =>
         outcome.result = thrown("Error", "CSV content is empty")
    /\ ~isEmptyContent(csv) /\ linesAfterHeader(csv) = {} =>
         outcome.result = thrown("Error", "No transaction rows found in CSV")

\* a non-empty input of fewer than 8 lines was refused for having no rows
C13_Witness ==
  /\ parseCalled
  /\ ~isEmptyContent(csv)
  /\ Len(csv) < DBS_METADATA_ROWS + 2
  /\ Len(csv) > 1
  /\ outcome.result = thrown("Error", "No transaction rows found in CSV")

\* C14: rows whose date is missing or blank are skipped silently: the
\* outcome is the outcome of reading the dated rows alone, so such a row
\* yields no record and no throw whatever its other fields hold, and the
\* records returned are those of the dated rows in source order.
C14_UndatedSkipped ==
  parseCalled /\ ~isEmptyContent(csv) /\ Len(dataRowsOf(csv)) > 0 =>
    LET rows == datedRowsOf(csv)
        r == outcome.result
    IN  /\ r = parseRows(rows, 1, << >>)
        /\ r.ok =>
             /\ Len(r.value) = Len(rows)
             /\ \A i \in 1..Len(rows) :
                  r.value[i].originalDescription = fieldOr(rows[i], <<"D", "e", "s", "c", "r", "i", "p", "t", "i", "o", "n">>)

\* a row with a blank date and an unreadable amount stood between dated rows
\* and parse returned the records of the dated rows
C14_Witness ==
  /\ parseCalled
  /\ outcome.result.ok
  /\ Len(outcome.result.value) = MaxBefore + 1
  /\ \E i \in 2..(Len(dataRowsOf(csv)) - 1) :
       /\ dateMissingOrBlank(dataRowsOf(csv)[i])
       /\ roundedCents(fieldOr(dataRowsOf(csv)[i], <<"D", "e", "b", "i", "t", " ", "A", "m", "o", "u", "n", "t">>)).nan
       /\ ~columnEmpty(dataRowsOf(csv)[i], <<"D", "e", "b", "i", "t", " ", "A", "m", "o", "u", "n", "t">>)

\* the codes the switch has a cleaner for
CleanerCodes ==
  {<<"P", "O", "S">>, <<"M", "S", "T">>, <<"U", "P", "I">>, <<"U", "M", "C">>, <<"U", "M", "C", "-", "S">>, <<"I", "C", "T">>, <<"I", "T", "R">>}

codeAbsent(row) == <<"T", "r", "a", "n", "s", "a", "c", "t", "i", "o", "n", " ", "C", "o", "d", "e">> \notin DOMAIN row

\* the row's code, trimmed; empty when the row has none
codeOf(row) == trim(fieldOr(row, <<"T", "r", "a", "n", "s", "a", "c", "t", "i", "o", "n", " ", "C", "o", "d", "e">>))

recognised(row) == ~codeAbsent(row) /\ toUpperCase(codeOf(row)) \in CleanerCodes

unrecognised(row) ==
  toUpperCase(codeOf(row)) \notin CleanerCodes /\ codeOf(row) \notin DOMAIN dbsCodes

\* every dated row has a date and an amount that parse accepts
datesAndAmountsRead(rows) ==
  \A i \in 1..Len(rows) :
    /\ parseDate(rows[i][<<"T", "r", "a", "n", "s", "a", "c", "t", "i", "o", "n", " ", "D", "a", "t", "e">>]).ok
    /\ ~bothAmountsEmpty(rows[i])

\* C15: a dated row with an unrecognised or absent code never makes parse
\* fail: when the dates and amounts of the dated rows are read, parse returns
\* a record for every dated row, and the record of a row with an unrecognised
\* or absent code has the title-cased Description column (after the final
\* card-number strip) as description, empty notes, and the code itself as
\* transactionCode.
C15_UnknownCodeFallsBack ==
  /\ parseCalled /\ ~isEmptyContent(csv) /\ Len(dataRowsOf(csv)) > 0
  /\ datesAndAmountsRead(datedRowsOf(csv))
  =>
    LET rows == datedRowsOf(csv)
        r == outcome.result
    IN  /\ r.ok
        /\ Len(r.value) = Len(rows)
        /\ \A i \in 1..Len(rows) :
             unrecognised(rows[i]) =>
               /\ r.value[i].description =
                    stripPII(titleCase(fieldOr(rows[i], <<"D", "e", "s", "c", "r", "i", "p", "t", "i", "o", "n">>)))
               /\ r.value[i].notes = << >>
               /\ r.value[i].transactionCode = codeOf(rows[i])

\* C16: no record parse returns has a card number (four groups of four
\* digits joined by hyphens) in its description.
C16_NoCardInDescription ==
  parseCalled /\ outcome.result.ok =>
    \A i \in 1..Len(outcome.result.value) :
      ~hasCard(outcome.result.value[i].description)

\* C17: no record parse returns has a card number in its notes.
C17_NoCardInNotes ==
  parseCalled /\ outcome.result.ok =>
    \A i \in 1..Len(outcome.result.value) :
      ~hasCard(outcome.result.value[i].notes)

\* a mobile-wallet (PayLah!) withdrawal or top-up row
isWalletRow(row) ==
  /\ ~codeAbsent(row)
  /\ toUpperCase(codeOf(row)) = <<"I", "T", "R">>
  /\ \/ startsWith(fieldOr(row, <<"T", "r", "a", "n", "s", "a", "c", "t", "i", "o", "n", " ", "R", "e", "f", "1">>), <<"S", "E", "N", "D", " ", "B", "A", "C", "K", " ", "F", "R", "O", "M", " ", "P", "A", "Y", "L", "A", "H", "!">>)
     \/ startsWith(fieldOr(row, <<"T", "r", "a", "n", "s", "a", "c", "t", "i", "o", "n", " ", "R", "e", "f", "1">>), <<"T", "O", "P", " ", "U", "P", " ", "T", "O", " ", "P", "A", "Y", "L", "A", "H", "!">>)

\* the row's second reference field, the phone number of a wallet row
phoneOf(row) == trim(fieldOr(row, <<"T", "r", "a", "n", "s", "a", "c", "t", "i", "o", "n", " ", "R", "e", "f", "2">>))

\* the text fields of a record other than the raw description
cleanedTexts(rec) == {rec.description, rec.notes, rec.transactionCode}

OtherDescriptions ==
  {<< >>, <<"T", "O", ":", " ", "S", "O", "M", "E", "O", "N", "E", " ", "E", "L", "S", "E", " ", "O", "T", "H", "R", " ", "1", "2", "3", "4", "-", "5", "6", "7", "8", "-", "9", "0", "1", "2", "-", "3", "4", "5", "6", " ", "m", "e", "m", "o">>, <<"N", "E", "T", "S", " ", "Q", "R", " ", "P", "A", "Y">>}

\* the rows with the Description column of every row replaced
redescribed(rows, description) ==
  [i \in 1..Len(rows) |->
     [name \in DOMAIN rows[i] |->
        IF name = <<"D", "e", "s", "c", "r", "i", "p", "t", "i", "o", "n">> THEN description ELSE rows[i][name]]]

\* C19: for rows with a recognised code the cleaned description and notes
\* depend only on the three reference fields: replacing the Description
\* column by any other text leaves them as they are.
C19_DescriptionColumnUnread ==
  parseCalled /\ outcome.result.ok =>
    LET rows == datedRowsOf(csv)
        r == outcome.result
    IN  \A d \in OtherDescriptions :
          LET r2 == parseRows(redescribed(rows, d), 1, << >>)
          IN  /\ r2.ok
              /\ Len(r2.value) = Len(r.value)
              /\ \A i \in 1..Len(rows) :
                   recognised(rows[i]) =>
                     /\ r2.value[i].description = r.value[i].description
                     /\ r2.value[i].notes = r.value[i].notes

\* a transfer with a memo was parsed after other rows, from a Description
\* column that differs from the replacement texts
C19_Witness ==
  /\ parseCalled
  /\ outcome.result.ok
  /\ LET rows == datedRowsOf(csv)
     IN  \E i \in 2..Len(rows) :
           /\ recognised(rows[i])
           /\ fieldOr(rows[i], <<"D", "e", "s", "c", "r", "i", "p", "t", "i", "o", "n">>) \notin OtherDescriptions
           /\ outcome.result.value[i].notes = <<"s", "a", "n", " ", "l", "o", "r", " ", "h", "o", "r", "f", "u", "n">>
           /\ outcome.result.value[i].description = <<"B", "o", "b", " ", "T", "a", "n">>

detectCalled == detected.kind = "called"

\* the text holds the token somewhere
hasToken(c, token) == \E i \in 1..Len(c) : includes(lineText(c[i]), token)

\* C20: detect never throws, and returns false for the empty string and for
\* every input that lacks the signature tokens "Transaction Date" and
\* "Transaction Ref1".
C20_DetectRejects ==
  detectCalled =>
    /\ detected.result.ok
    /\ ~(hasToken(csv, <<"T", "r", "a", "n", "s", "a", "c", "t", "i", "o", "n", " ", "D", "a", "t", "e">>) /\ hasToken(csv, <<"T", "r", "a", "n", "s", "a", "c", "t", "i", "o", "n", " ", "R", "e", "f", "1">>))
         => detected.result.value = FALSE

\* detect refused an input that has one of the two tokens only
C20_Witness ==
  /\ detectCalled
  /\ hasToken(csv, <<"T", "r", "a", "n", "s", "a", "c", "t", "i", "o", "n", " ", "D", "a", "t", "e">>)
  /\ ~hasToken(csv, <<"T", "r", "a", "n", "s", "a", "c", "t", "i", "o", "n", " ", "R", "e", "f", "1">>)
  /\ detected.result = returned(FALSE)

(***************************************************************************)
(* detect and the lines it reads                                           *)
(***************************************************************************)
\* a data row that spells out both signature tokens
TokenRow == << <<"T", "r", "a", "n", "s", "a", "c", "t", "i", "o", "n", " ", "D", "a", "t", "e">>, <<"T", "r", "a", "n", "s", "a", "c", "t", "i", "o", "n", " ", "R", "e", "f", "1">> >>

\* other lines a text could carry below a given line
OtherTails == { << >>, <<GoodRows[1]>>, <<TokenRow>>, <<GoodRows[2], TokenRow>> }

\* the first n lines of the text followed by other lines
withTail(c, n, tail) == (IF n >= Len(c) THEN c ELSE SubSeq(c, 1, n)) \o tail

\* C21 as stated: two inputs that agree on the metadata lines and the header
\* row (lines 1-7) and differ only from line 8 onward get the same detect
\* result.
C21_DetectIgnoresDataRows ==
  detectCalled /\ Len(csv) >= DBS_METADATA_ROWS + 1 =>
    \A tail \in OtherTails :
      detect(withTail(csv, DBS_METADATA_ROWS + 1, tail)) = detected.result.value

\* C21: two inputs that agree on their first 10 lines and differ only from
\* line 11 onward get the same detect result.
C21_DetectReadsTenLines ==
  detectCalled /\ Len(csv) >= DetectLines =>
    \A tail \in OtherTails :
      detect(withTail(csv, DetectLines, tail)) = detected.result.value

\* detect refused a text whose first 10 lines lack a token that line 11 or a
\* later line holds
C21_Witness ==
  /\ detectCalled
  /\ Len(csv) > DetectLines
  /\ hasToken(sliceFrom(csv, DetectLines), <<"T", "r", "a", "n", "s", "a", "c", "t", "i", "o", "n", " ", "R", "e", "f", "1">>)
  /\ ~hasToken(sliceTo(csv, DetectLines), <<"T", "r", "a", "n", "s", "a", "c", "t", "i", "o", "n", " ", "R", "e", "f", "1">>)
  /\ detected.result = returned(FALSE)

(***************************************************************************)
(* C22  detectAndParse: first detecting parser parses, else unsupported    *)
(***************************************************************************)
dispatchCalled == dispatched.kind = "called"

\* the registered parsers whose detect accepts the text
detecting(c) == {i \in 1..Len(parsers) : detectBy(parsers[i], c)}

firstDetecting(c) == CHOOSE i \in detecting(c) : \A j \in detecting(c) : i <= j

\* the joined bank names of the message name bank b
names(banks, b) == \E k \in 1..Len(banks) : banks[k] = b

isPayNowRow(row) ==
  /\ ~codeAbsent(row)
  /\ toUpperCase(codeOf(row)) = <<"I", "C", "T">>
  /\ \/ startsWith(fieldOr(row, <<"T", "r", "a", "n", "s", "a", "c", "t", "i", "o", "n", " ", "R", "e", "f", "1">>), <<"P", "a", "y", "N", "o", "w", " ", "T", "r", "a", "n", "s", "f", "e", "r">>)
     \/ startsWith(fieldOr(row, <<"T", "r", "a", "n", "s", "a", "c", "t", "i", "o", "n", " ", "R", "e", "f", "1">>), <<"I", "n", "c", "o", "m", "i", "n", "g", " ", "P", "a", "y", "N", "o", "w">>)

\* reference field 3 without its OTHR marker and the white space around
remainderOf(row) == trim(stripMarker(fieldOr(row, <<"T", "r", "a", "n", "s", "a", "c", "t", "i", "o", "n", " ", "R", "e", "f", "3">>), <<"O", "T", "H", "R">>))

\* a single token of letters, digits and hyphens
plainToken(s) == allOf(s, LetterChars \cup DigitChars \cup {"-"})

\* the notes the rule of the claim gives for a remainder
notesFor(remainder) ==
  IF toLowerCase(remainder) = toLowerCase(<<"P", "a", "y", "N", "o", "w", " ", "t", "r", "a", "n", "s", "f", "e", "r">>) THEN << >>
  ELSE IF Len(remainder) >= 15 /\ plainToken(remainder) THEN << >>
  ELSE remainder

C23_ShortTokenKept ==
  /\ parseCalled
  /\ outcome.result.ok
  /\ \E i \in 1..Len(datedRowsOf(csv)) :
       LET row == datedRowsOf(csv)[i]
       IN  /\ isPayNowRow(row)
           /\ plainToken(remainderOf(row))
           /\ Len(remainderOf(row)) = 14
           /\ outcome.result.value[i].notes = remainderOf(row)

(***************************************************************************)
(* C24  card payments: suffix, then trailing numeric token, then title case *)
(***************************************************************************)
\* the tokens of s: its maximal runs of characters other than white space
RECURSIVE tokensFrom(_, _)
tokensFrom(s, i) ==
  IF i > Len(s) THEN << >>
  ELSE IF isSpace(s[i]) THEN tokensFrom(s, i + 1)
  ELSE LET n == runLen(s, i, {s[k] : k \in 1..Len(s)} \ WhiteSpace)
       IN  <<SubSeq(s, i, i + n - 1)>> \o tokensFrom(s, i + n)

tokensOf(s) == tokensFrom(s, 1)

isCardRow(row) ==
  /\ ~codeAbsent(row)
  /\ toUpperCase(codeOf(row)) \in {<<"M", "S", "T">>, <<"U", "P", "I">>, <<"U", "M", "C">>, <<"U", "M", "C", "-", "S">>}

\* an acquirer or country code: 2 or 3 letters
isCodeToken(t) == Len(t) \in {2, 3} /\ allOf(t, LetterChars)

\* a 2-digit day followed by a 3-letter month
isDayMonthToken(t) ==
  /\ Len(t) = 5
  /\ allOf(SubSeq(t, 1, 2), DigitChars)
  /\ allOf(SubSeq(t, 3, 5), LetterChars)

\* the last `k` tokens of ts trail something: other tokens, or the white
\* space the field starts with
trails(ref1, ts, k) == Len(ts) > k \/ (Len(ts) = k /\ isSpace(ref1[1]))

\* the tokens of the field that make the payee: none is removed when the
\* field ends in white space, since then neither the suffix nor a numeric
\* token is at its end
payeeTokens(ref1) ==
  LET ts == tokensOf(ref1)
      n == Len(ts)
      suffixed == /\ n >= 3
                  /\ trails(ref1, ts, 3)
                  /\ isCodeToken(ts[n - 2])
                  /\ isCodeToken(ts[n - 1])
                  /\ isDayMonthToken(ts[n])
      rest == IF suffixed THEN SubSeq(ts, 1, n - 3) ELSE ts
      m == Len(rest)
      numbered == /\ m >= 1
                  /\ trails(ref1, rest, 1)
                  /\ allOf(rest[m], DigitChars)
  IN  IF Len(ref1) = 0 \/ isSpace(ref1[Len(ref1)]) THEN ts
      ELSE IF numbered THEN SubSeq(rest, 1, m - 1)
      ELSE rest

\* C24: for a card-payment row the description is the title-cased first
\* reference field without its trailing acquirer-code, country-code and
\* day-month suffix (in any capitalisation) and then without a trailing
\* all-numeric token; tokens elsewhere and tokens holding a letter stay.
C24_CardPayee ==
  parseCalled /\ outcome.result.ok =>
    LET rows == datedRowsOf(csv)
    IN  \A i \in 1..Len(rows) :
          isCardRow(rows[i]) =>
            LET ref1 == fieldOr(rows[i], <<"T", "r", "a", "n", "s", "a", "c", "t", "i", "o", "n", " ", "R", "e", "f", "1">>)
            IN  /\ tokensOf(outcome.result.value[i].description) =
                     tokensOf(stripPII(titleCase(join(payeeTokens(ref1), <<" ">>))))
                /\ outcome.result.value[i].notes = << >>

\* a card payment with a numeric token before its suffix was parsed: both
\* were removed, and the tokens before them were kept
C24_Witness ==
  /\ parseCalled
  /\ outcome.result.ok
  /\ \E i \in 1..Len(datedRowsOf(csv)) :
       LET row == datedRowsOf(csv)[i]
           ts == tokensOf(fieldOr(row, <<"T", "r", "a", "n", "s", "a", "c", "t", "i", "o", "n", " ", "R", "e", "f", "1">>))
       IN  /\ isCardRow(row)
           /\ Len(ts) = 5
           /\ allOf(ts[2], DigitChars)
           /\ isDayMonthToken(ts[5])
           /\ toUpperCase(outcome.result.value[i].description) = toUpperCase(ts[1])

(***************************************************************************)
(* C25  a failed read of the whitelist store means an empty whitelist      *)
(***************************************************************************)
\* the read of the store fails: the storage cannot be accessed, the entry
\* is not JSON, or it is JSON other than an array of strings
failedRead(e) ==
  /\ e.window
  /\ \/ e.throws
     \/ e.raw = "malformed"
     \/ /\ e.raw = "json"
        /\ \/ e.value.type # "array"
           \/ \E k \in 1..Len(e.value.items) : e.value.items[k].type # "string"

omitted == [given |-> FALSE, set |-> {}]

\* the record came out masked: a pool placeholder stands for its description
maskedFrom(in, out) ==
  /\ out.description \in {MOCK_NAMES[k] : k \in 1..Len(MOCK_NAMES)}
  /\ out.description \in DOMAIN out.originalPII
  /\ out.originalPII[out.description] = in.description

\* C25: with the whitelist argument omitted, a read of the store that fails
\* (storage inaccessible, malformed JSON, content that is not an array of
\* strings) gives anonymise the empty whitelist, and a call of anonymise
\* working with the empty whitelist completes and masks every eligible
\* record that is not a business.
C25_StoreFaultsMaskEverything ==
  /\ \A e \in StoreReads :
       failedRead(e) => whitelistInForce(omitted, e) = {}
  /\ (lastOp = "anonymise" /\ lastWl = {}) =>
       /\ Len(outRecs) = Len(inRecs)
       /\ \A i \in 1..Len(inRecs) :
            specEligible(inRecs[i]) /\ ~specBusiness(inRecs[i]) =>
              maskedFrom(inRecs[i], outRecs[i])

\* an anonymise call whose whitelist is the one a failed read leaves has
\* masked a name that a readable store would have exempted
C25_Witness ==
  /\ lastOp = "anonymise"
  /\ \E e \in StoreReads : failedRead(e) /\ lastWl = whitelistInForce(omitted, e)
  /\ \E i \in 1..Len(inRecs) :
       /\ \E e \in StoreReads :
            toUpperCase(inRecs[i].description) \in whitelistInForce(omitted, e)
       /\ specEligible(inRecs[i])
       /\ maskedFrom(inRecs[i], outRecs[i])
       /\ outRecs[i].description # inRecs[i].description

(***************************************************************************)
(* api/categorise/route.ts: the rate limiter and the POST handler          *)
(*                                                                         *)
(* Time is Date.now() in milliseconds.  An environment variable or a       *)
(* request header is unset, or set to a text.                              *)
(***************************************************************************)
Unset == [set |-> FALSE]

setTo(text) == [set |-> TRUE, text |-> text]

\* the length of a rate window, in milliseconds
WINDOW_MS == 60000

\* milliseconds in a second
MS_PER_SECOND == 1000

\* parseInt(process.env.RATE_LIMIT_RPM ?? "10", 10)
RPM_LIMIT ==
  parseInt(IF env.RATE_LIMIT_RPM.set THEN env.RATE_LIMIT_RPM.text ELSE <<"1", "0">>)

\* Math.ceil(a / b) for a >= 0 and b > 0
ceilDiv(a, b) == (a + b - 1) \div b

\* count >= RPM_LIMIT, false when RPM_LIMIT is NaN
atLimit(count) == ~RPM_LIMIT.nan /\ count >= RPM_LIMIT.value

\* checkRateLimit(ip) at time t with the map `windows`: the map afterwards
\* and the verdict
checkRateLimit(windows, t, ip) ==
  IF ip \notin DOMAIN windows \/ t > windows[ip].resetAt
    THEN [windows |-> spreadSet(windows, ip,
                                [count |-> 1, resetAt |-> t + WINDOW_MS]),
          allowed |-> TRUE]
  ELSE IF atLimit(windows[ip].count)
    THEN [windows |-> windows,
          allowed |-> FALSE,
          retryAfter |-> ceilDiv(windows[ip].resetAt - t, MS_PER_SECOND)]
  ELSE [windows |-> [windows EXCEPT ![ip].count = @ + 1],
        allowed |-> TRUE]

\* the first entry of x-forwarded-for, else x-real-ip, else "unknown"
getClientIP(headers) ==
  IF headers.forwarded.set THEN trim(split(headers.forwarded.text, ",")[1])
  ELSE IF headers.realIp.set THEN headers.realIp.text
  ELSE <<"u", "n", "k", "n", "o", "w", "n">>

\* what POST answers once the rate check is done: body is what req.json()
\* and the shape checks meet, gemini what the Gemini call does
answer(rateCheck, body, gemini) ==
  IF ~rateCheck.allowed
    THEN [status |-> 429, error |-> "Rate limit exceeded",
          retryAfter |-> rateCheck.retryAfter]
  ELSE IF body = "not json"
    THEN [status |-> 400, error |-> "Invalid JSON body"]
  ELSE IF body = "no arrays"
    THEN [status |-> 400,
          error |-> "Request must include 'transactions' and 'categories' arrays"]
  ELSE IF body = "no transactions"
    THEN [status |-> 200, results |-> "none"]
  ELSE IF ~env.GEMINI_API_KEY.set \/ env.GEMINI_API_KEY.text = << >>
    THEN [status |-> 500,
          error |-> "Gemini API key is not configured on the server"]
  ELSE IF gemini = "fails"
    THEN [status |-> 500, error |-> "Gemini API request failed"]
  ELSE [status |-> 200, results |-> "categories"]

(***************************************************************************)
(* The route as a state machine                                            *)
(***************************************************************************)
\* the most requests answered
MaxRequests == 4

\* the readings of the clock, in order: a first request at 0 opens a window
\* that ends at 60000
Readings == <<0, 59500, 60000, 60001>>

Environments ==
  {[RATE_LIMIT_RPM |-> r, GEMINI_API_KEY |-> setTo(<<"A", "I", "z", "a">>)] :
     r \in {Unset, setTo(<<"2">>), setTo(<<"0">>), setTo(<< >>)}}
    \cup {[RATE_LIMIT_RPM |-> Unset, GEMINI_API_KEY |-> Unset]}

\* the headers of a request: two ways to name one client, and none
HeaderSets ==
  {[forwarded |-> setTo(<<"2", "0", "3", ".", "0", ".", "1", "1", "3", ".", "7", ",", " ", "1", "0", ".", "0", ".", "0", ".", "1">>), realIp |-> Unset],
   [forwarded |-> Unset, realIp |-> setTo(<<"2", "0", "3", ".", "0", ".", "1", "1", "3", ".", "7">>)],
   [forwarded |-> Unset, realIp |-> Unset]}

Bodies == {"not json", "no arrays", "no transactions", "batch"}

GeminiOutcomes == {"answers", "fails"}

\* nothing was anonymised or parsed
PiiIdle ==
  /\ heap = << >>
  /\ arrays = << << >> >>
  /\ cur = 1
  /\ arg = 0
  /\ history = << >>
  /\ parsed = << >>
  /\ payload = NoPayload

\* the requests of ip answered so far
servedTo(ip) == IF ip \in DOMAIN served THEN served[ip] ELSE << >>

requestsServed ==
  Cardinality(UNION {{<<ip, k>> : k \in 1..Len(served[ip])} : ip \in DOMAIN served})

\* the module is loaded: RPM_LIMIT is fixed by the environment
RouteInit ==
  /\ env \in Environments
  /\ ipWindows = << >>
  /\ now = Readings[1]
  /\ served = << >>
  /\ response = NotCalled
  /\ PiiIdle
  /\ csv = << >>
  /\ ParserIdle
  /\ KeyIdle

\* POST(req)
Post ==
  /\ requestsServed < MaxRequests
  /\ \E headers \in HeaderSets, body \in Bodies, gemini \in GeminiOutcomes :
       LET ip == getClientIP(headers)
           rateCheck == checkRateLimit(ipWindows, now, ip)
       IN  /\ ipWindows' = rateCheck.windows
           /\ served' = spreadSet(served, ip,
                                  Append(servedTo(ip),
                                         [at |-> now, allowed |-> rateCheck.allowed]))
           /\ response' = [to |-> ip, answer |-> answer(rateCheck, body, gemini)]
  /\ UNCHANGED <<env, now>>
  /\ UNCHANGED <<piiVars, parserVars, keyVars>>

\* time passes
Tick ==
  /\ \E k \in 1..(Len(Readings) - 1) :
       /\ now = Readings[k]
       /\ now' = Readings[k + 1]
  /\ UNCHANGED <<env, ipWindows, served, response>>
  /\ UNCHANGED <<piiVars, parserVars, keyVars>>

NextRoute == Post \/ Tick

SpecRoute == RouteInit /\ [][NextRoute]_vars

(***************************************************************************)
(* C26  RPM_LIMIT requests pass in a window, the others are refused        *)
(***************************************************************************)
\* n <= RPM_LIMIT, false when RPM_LIMIT is NaN
withinLimit(n) == ~RPM_LIMIT.nan /\ n <= RPM_LIMIT.value

\* the request of the log that opened the window request j falls in: the
\* first request opens a window, and so does the first request after the
\* window before it has reset
RECURSIVE openerOf(_, _)
openerOf(log, j) ==
  IF j = 1 THEN 1
  ELSE LET o == openerOf(log, j - 1)
       IN  IF log[j].at > log[o].at + 60000 THEN j ELSE o

\* C26: for every client IP, within the window its first request opens (and
\* each later window), the first RPM_LIMIT requests of the IP pass the rate
\* check and every further request before the window resets does not; the
\* answer to a refused request is 429 with retryAfter, the seconds until the
\* window resets, rounded up.
C26_LimitPerWindow ==
  /\ \A ip \in DOMAIN served :
       \A j \in 1..Len(served[ip]) :
         served[ip][j].allowed <=>
           withinLimit(j - openerOf(served[ip], j) + 1)
  /\ response # NotCalled =>
       LET log == served[response.to]
           last == log[Len(log)]
       IN  IF last.allowed THEN response.answer.status # 429
           ELSE /\ response.answer.status = 429
                /\ response.answer.retryAfter =
                     ceilDiv(log[openerOf(log, Len(log))].at + 60000 - last.at, 1000)

(***************************************************************************)
(* C28  at most RPM_LIMIT requests pass in any 60 seconds                  *)
(***************************************************************************)
\* the requests i..j of the log that passed the rate check
passedBetween(log, i, j) == {k \in i..j : log[k].allowed}

\* C28: for every client IP and every stretch of its requests that arrive
\* within less than 60 seconds of each other, at most RPM_LIMIT of them pass
\* checkRateLimit.
C28_SlidingWindow ==
  \A ip \in DOMAIN served :
    \A i, j \in 1..Len(served[ip]) :
      (i <= j /\ served[ip][j].at - served[ip][i].at < 60000) =>
        withinLimit(Cardinality(passedBetween(served[ip], i, j)))

(***************************************************************************)
(* categoriser/client.ts and hooks/use-local-storage.ts: the BYOK key      *)
(*                                                                         *)
(* The entry under BYOK_STORAGE_KEY is Unset (getItem gives null) or set   *)
(* to a text.  A key handed to setBYOKKey is Unset for null, else a text.  *)
(***************************************************************************)
\* the escape of one character inside a JSON string literal
jsonEscape(c) ==
  IF c = "\"" THEN <<"\\", "\"">>
  ELSE IF c = "\\" THEN <<"\\", "\\">>
  ELSE <<c>>

RECURSIVE jsonEscapeAll(_)
jsonEscapeAll(s) ==
  IF Len(s) = 0 THEN << >> ELSE jsonEscape(s[1]) \o jsonEscapeAll(Tail(s))

\* JSON.stringify(s) of a string s
jsonStringify(s) == <<"\"">> \o jsonEscapeAll(s) \o <<"\"">>

\* the characters between the quotes of a string literal, unescaped;
\* [ok |-> FALSE] when an escape is cut short or a quote is bare
RECURSIVE jsonUnescape(_)
jsonUnescape(s) ==
  IF Len(s) = 0 THEN returned(<< >>)
  ELSE IF s[1] = "\""
    THEN thrown("SyntaxError", "Unexpected token")
  ELSE IF s[1] = "\\"
    THEN IF Len(s) >= 2 /\ s[2] \in {"\"", "\\"}
           THEN LET rest == jsonUnescape(SubSeq(s, 3, Len(s)))
                IN  IF rest.ok THEN returned(<<s[2]>> \o rest.value) ELSE rest
           ELSE thrown("SyntaxError", "Bad escaped character")
  ELSE LET rest == jsonUnescape(Tail(s))
       IN  IF rest.ok THEN returned(<<s[1]>> \o rest.value) ELSE rest

\* JSON.parse(text) as a string: the texts of the model are string literals
\* or are not JSON at all
jsonParse(text) ==
  IF Len(text) >= 2 /\ text[1] = "\"" /\ text[Len(text)] = "\""
    THEN jsonUnescape(SubSeq(text, 2, Len(text) - 1))
  ELSE thrown("SyntaxError", "Unexpected token")

\* window.localStorage.getItem(BYOK_STORAGE_KEY)
getBYOKKey(storage) == storage

\* setBYOKKey(key): the entry afterwards
setBYOKKey(storage, key) ==
  IF ~key.set THEN Unset
  ELSE setTo(key.text)

\* the lazy initialiser of useLocalStorage(BYOK_STORAGE_KEY, "")
initialValueOf(storage) ==
  IF ~storage.set THEN << >>
  ELSE LET parsedItem == jsonParse(storage.text)
       IN  IF parsedItem.ok THEN parsedItem.value ELSE << >>

\* the write effect: localStorage.setItem(key, JSON.stringify(storedValue))
writeEffect(value) == setTo(jsonStringify(value))

(***************************************************************************)
(* The key store as a state machine                                        *)
(***************************************************************************)
\* the keys a user enters: the last two hold a quote, or look like JSON
Keys ==
  {<<"A", "I", "z", "a", "S", "y">>, <<"k", "-", "2">>, <<"1", "2">>,
   <<"a", "\"", "b">>, <<"\"", "x", "\"">>}

\* what setBYOKKey is called with
KeyArguments == {Unset, setTo(<< >>)} \cup {setTo(k) : k \in Keys}

\* a page opens on a browser whose storage has no entry
KeyInit ==
  /\ localStorage = Unset
  /\ storedValue = NotCalled
  /\ lastKeyOp = NotCalled
  /\ PiiIdle
  /\ csv = << >>
  /\ ParserIdle
  /\ RouteIdle

\* the page mounts: the hook reads its state, then its effect writes it
Mount ==
  /\ storedValue = NotCalled
  /\ storedValue' = setTo(initialValueOf(localStorage))
  /\ localStorage' = writeEffect(initialValueOf(localStorage))
  /\ lastKeyOp' = [kind |-> "hook"]
  /\ UNCHANGED <<piiVars, parserVars, routeVars>>

\* the page sets the hook's state to another value: the effect writes it
SetStoredValue ==
  /\ storedValue # NotCalled
  /\ \E v \in Keys \cup {<< >>} :
       /\ v # storedValue.text
       /\ storedValue' = setTo(v)
       /\ localStorage' = writeEffect(v)
  /\ lastKeyOp' = [kind |-> "hook"]
  /\ UNCHANGED <<piiVars, parserVars, routeVars>>

\* the page is closed or reloaded: the hook's state is gone, the entry stays
Unmount ==
  /\ storedValue # NotCalled
  /\ storedValue' = NotCalled
  /\ UNCHANGED <<localStorage, lastKeyOp>>
  /\ UNCHANGED <<piiVars, parserVars, routeVars>>

\* setBYOKKey(key)
SetBYOKKey ==
  /\ \E key \in KeyArguments :
       /\ localStorage' = setBYOKKey(localStorage, key)
       /\ lastKeyOp' = [kind |-> "set", key |-> key]
  /\ UNCHANGED storedValue
  /\ UNCHANGED <<piiVars, parserVars, routeVars>>

\* getBYOKKey()
GetBYOKKey ==
  /\ lastKeyOp' = [kind |-> "get", result |-> getBYOKKey(localStorage)]
  /\ UNCHANGED <<localStorage, storedValue>>
  /\ UNCHANGED <<piiVars, parserVars, routeVars>>

NextKey == Mount \/ SetStoredValue \/ Unmount \/ SetBYOKKey \/ GetBYOKKey

SpecKey == KeyInit /\ [][NextKey]_vars

(***************************************************************************)
(* C27  the key is stored as JSON and read back without its quotes         *)
(***************************************************************************)
\* the key the entry stands for: none when there is no entry or the entry is
\* empty, raw or as JSON; the string of a JSON string literal; else the raw
\* text
keyOf(storage) ==
  IF ~storage.set THEN Unset
  ELSE IF storage.text = << >> \/ storage.text = jsonStringify(<< >>) THEN Unset
  ELSE IF jsonParse(storage.text).ok THEN setTo(jsonParse(storage.text).value)
  ELSE storage

\* C27: whatever setBYOKKey and the hook have written, getBYOKKey() returns
\* null when no key or an empty key (raw or JSON-serialised) is stored and
\* otherwise the key without JSON quoting; setBYOKKey(k) with a non-empty k
\* leaves JSON.stringify(k) in the entry, and setBYOKKey(null) and
\* setBYOKKey("") leave no entry.
C27_KeyReadsAndWrites ==
  /\ lastKeyOp.kind = "get" => lastKeyOp.result = keyOf(localStorage)
  /\ lastKeyOp.kind = "set" =>
       IF lastKeyOp.key.set /\ lastKeyOp.key.text # << >>
         THEN localStorage = setTo(jsonStringify(lastKeyOp.key.text))
         ELSE localStorage = Unset

(***************************************************************************)
(* C29  rows cleaned as transfers carry a transfer transactionCode         *)
(***************************************************************************)
\* the characters of the descriptions in TRANSFER_TRANSACTION_CODES
spelled ==
  [c \in TRANSFER_TRANSACTION_CODES |->
     IF c = "FAST or PayNow Payment / Receipt"
       THEN <<"F", "A", "S", "T", " ", "o", "r", " ", "P", "a", "y", "N", "o", "w", " ", "P", "a", "y", "m", "e", "n", "t", " ", "/", " ", "R", "e", "c", "e", "i", "p", "t">>
       ELSE <<"F", "u", "n", "d", "s", " ", "T", "r", "a", "n", "s", "f", "e", "r">>]

\* isTransferTransaction of a transactionCode the parser produced
isTransferText(transactionCode) ==
  \E c \in TRANSFER_TRANSACTION_CODES :
    isTransferTransaction(c) /\ spelled[c] = transactionCode

\* the row goes to cleanICT or cleanITR
isTransferRow(row) ==
  ~codeAbsent(row) /\ toUpperCase(codeOf(row)) \in {<<"I", "C", "T">>, <<"I", "T", "R">>}

\* C29: every record parse produces from a row that goes to the interbank
\* or the intrabank transfer cleaner, however its short code is capitalised,
\* has a transactionCode for which isTransferTransaction is true.
C29_TransferRowsAreMaskable ==
  parseCalled /\ outcome.result.ok =>
    LET rows == datedRowsOf(csv)
    IN  \A i \in 1..Len(rows) :
          isTransferRow(rows[i]) =>
            isTransferText(outcome.result.value[i].transactionCode)

(***************************************************************************)
(* C30  anonymise and restore keep the shape of the batch                  *)
(***************************************************************************)
\* the fields neither function may touch
sameTransaction(a, b) ==
  /\ a.date = b.date
  /\ a.amount = b.amount
  /\ a.transactionCode = b.transactionCode
  /\ a.notes = b.notes
  /\ a.originalDescription = b.originalDescription

\* C30: the array anonymise or restore returns has the length and the order
\* of the array it was given: the record at each index has the date, amount,
\* transactionCode, notes and originalDescription of the input record at
\* that index; so after any sequence of calls the record at index i is still
\* the transaction parsed at index i.
C30_BatchShapeKept ==
  lastOp \in {"anonymise", "restore"} =>
    /\ Len(outRecs) = Len(inRecs)
    /\ \A i \in 1..Len(inRecs) : sameTransaction(outRecs[i], inRecs[i])
    /\ Len(outRecs) = Len(parsed)
    /\ \A i \in 1..Len(parsed) : sameTransaction(outRecs[i], parsed[i])

\* after as many calls as the model makes, ending in anonymise, a batch of
\* different transactions holds a masked description at some index
C30_Witness ==
  /\ Len(history) = MaxCalls
  /\ lastOp = "anonymise"
  /\ Len(parsed) = MaxLen
  /\ \E i, j \in 1..Len(parsed) : ~sameTransaction(parsed[i], parsed[j])
  /\ \E i \in 1..Len(parsed) :
       /\ outRecs[i].description # parsed[i].description
       /\ outRecs[i].originalPII # parsed[i].originalPII

====
